---- MODULE Spec2Model ----
(***************************************************************************)
(* GraphicsContextCG: the CoreGraphics-backed immediate-mode drawing       *)
(* context of WebCore (Source/WebCore/platform/graphics/cg/                *)
(* GraphicsContextCG.cpp).                                                 *)
(*                                                                         *)
(* The context owns a drawing state (m_state) with a stack of saved copies *)
(* (m_stack) and drives a CoreGraphics context, modelled as its current    *)
(* graphics state (cg), its stack of saved graphics states (cgStack) and   *)
(* the number of open transparency layers (cgLayers).  Every public method *)
(* is one action; the backend calls the method issues are logged in        *)
(* `calls`, which holds the calls of the last method only.                 *)
(*                                                                         *)
(* Lengths are integers (device pixels); an affine transform is the tuple  *)
(* <<a, b, c, d, tx, ty>> of CGAffineTransform; rotations are multiples of *)
(* a quarter turn so that every matrix stays integral.                     *)
(***************************************************************************)
EXTENDS Integers, Sequences, FiniteSets, TLC

VARIABLES
    contextType,      \* CGContextGetType(m_cgContext)
    m_renderingMode,  \* GraphicsContextCG::m_renderingMode
    m_state,          \* GraphicsContext::m_state
    m_stack,          \* GraphicsContext::m_stack
    m_userToDeviceTransformKnownToBeIdentity,
    cg,               \* the backend's current graphics state
    cgStack,          \* the backend's saved graphics states
    cgLayers,         \* open backend transparency layers
    calls,            \* backend calls issued by the last method
    lastOp,           \* the last method called, with its inputs
    snapshots,        \* history: <<m_state, cg, purpose, layers>> at each unmatched save()
    tileImages        \* the images retained by CGImageRetain in drawPattern

vars == <<contextType, m_renderingMode, m_state, m_stack,
          m_userToDeviceTransformKnownToBeIdentity, cg, cgStack, cgLayers,
          calls, lastOp, snapshots, tileImages>>

(***************************************************************************)
(* Bounds of the model.                                                    *)
(***************************************************************************)
\* save() is not offered beyond this stack depth
MaxDepth == 2
\* the same, where every transform operation is offered
MaxTransformDepth == 1
\* transform operations are not offered when an entry would exceed this
MaxCoord == 1
\* beginTransparencyLayer is not offered beyond this many open layers
MaxLayers == 1

\* The depth of nested save() / beginTransparencyLayer() calls in SpecLayer.
MaxNesting == 3
\* under a drop shadow, scale is not offered when an entry of the transform
\* would exceed this
MaxShadowScale == 2
\* a field is not made dirty when this many are, nor changed when this
\* many differ from the constructed state
MaxDirty == 2
\* dash offsets are drawn from -MaxDashOffset..MaxDashOffset
MaxDashOffset == 9

\* drawPattern is not offered once this many tile images were retained
MaxTileImages == 2

(***************************************************************************)
(* Affine transforms (CGAffineTransform).                                  *)
(***************************************************************************)
CGAffineTransformIdentity == <<1, 0, 0, 1, 0, 0>>

CGAffineTransformMake(a, b, c, d, tx, ty) == <<a, b, c, d, tx, ty>>

\* t1 * t2: t1 is applied first.
CGAffineTransformConcat(t1, t2) ==
    << t1[1] * t2[1] + t1[2] * t2[3],
       t1[1] * t2[2] + t1[2] * t2[4],
       t1[3] * t2[1] + t1[4] * t2[3],
       t1[3] * t2[2] + t1[4] * t2[4],
       t1[5] * t2[1] + t1[6] * t2[3] + t2[5],
       t1[5] * t2[2] + t1[6] * t2[4] + t2[6] >>

CGAffineTransformIsIdentity(t) == t = CGAffineTransformIdentity

MakeScale(sx, sy) == <<sx, 0, 0, sy, 0, 0>>

MakeTranslation(x, y) == <<1, 0, 0, 1, x, y>>

\* rotation by `quarters` quarter turns: <<cos, sin, -sin, cos, 0, 0>>
MakeRotation(quarters) ==
    CASE quarters % 4 = 0 -> <<1, 0, 0, 1, 0, 0>>
      [] quarters % 4 = 1 -> <<0, 1, -1, 0, 0, 0>>
      [] quarters % 4 = 2 -> <<-1, 0, 0, -1, 0, 0>>
      [] OTHER            -> <<0, -1, 1, 0, 0, 0>>

Abs(x) == IF x < 0 THEN -x ELSE x

InRange(t) == \A i \in 1..6 : Abs(t[i]) <= MaxCoord

(***************************************************************************)
(* The backend (CoreGraphics) as the methods use it.  Each operator takes  *)
(* and returns a graphics state.                                           *)
(***************************************************************************)
Call(by, fn, arg) == <<by, fn, arg>>

CGContextScaleCTM(g, sx, sy) ==
    [g EXCEPT !.ctm = CGAffineTransformConcat(MakeScale(sx, sy), @)]

CGContextRotateCTM(g, quarters) ==
    [g EXCEPT !.ctm = CGAffineTransformConcat(MakeRotation(quarters), @)]

CGContextTranslateCTM(g, x, y) ==
    [g EXCEPT !.ctm = CGAffineTransformConcat(MakeTranslation(x, y), @)]

CGContextConcatCTM(g, t) ==
    [g EXCEPT !.ctm = CGAffineTransformConcat(t, @)]

CGContextSetCTM(g, t) == [g EXCEPT !.ctm = t]

CGContextGetCTM(g) == g.ctm

\* The device space of the modelled surfaces is the base space.
CGContextGetUserSpaceToDeviceSpaceTransform(g) == g.ctm

CGContextSetBlendMode(g, mode) == [g EXCEPT !.blendMode = mode]

CGContextSetAlpha(g, alpha) == [g EXCEPT !.alpha = alpha]

CGContextSetLineWidth(g, w) == [g EXCEPT !.lineWidth = w]

CGContextSetFillColorWithColor(g, color) == [g EXCEPT !.fillColor = color]

CGContextSetStrokeColorWithColor(g, color) == [g EXCEPT !.strokeColor = color]

CGContextSetStyle(g, style) == [g EXCEPT !.style = style]

\* The clip is the sequence of the clips applied to it.
CGContextClipToRect(g, rect) == [g EXCEPT !.clip = Append(@, <<"rect", rect>>)]

CGContextClip(g, region) == [g EXCEPT !.clip = Append(@, <<"nonzero", region>>)]

CGContextEOClip(g, region) == [g EXCEPT !.clip = Append(@, <<"evenodd", region>>)]

CGContextSetBaseCTM(g, t) == [g EXCEPT !.baseCTM = t]

\* The input itself when it has no inverse.  Exact for the matrices of the
\* model, whose determinant divides every entry of the adjugate.
CGAffineTransformInvert(t) ==
    LET det == t[1] * t[4] - t[2] * t[3]
        s   == IF det < 0 THEN -1 ELSE 1
        m   == Abs(det)
    IN  IF det = 0 THEN t
        ELSE << (s * t[4]) \div m, (s * (-t[2])) \div m,
                (s * (-t[3])) \div m, (s * t[1]) \div m,
                (s * (t[3] * t[6] - t[4] * t[5])) \div m,
                (s * (t[2] * t[5] - t[1] * t[6])) \div m >>

getUserToBaseCTM(g) ==
    CGAffineTransformConcat(g.ctm, CGAffineTransformInvert(g.baseCTM))

\* The largest r with r * r <= x (sqrt, exact on perfect squares).
ISqrt(x) == CHOOSE r \in 0..(x + 1) : r * r <= x /\ (r + 1) * (r + 1) > x

Min(a, b) == IF a < b THEN a ELSE b

Max(a, b) == IF a > b THEN a ELSE b


(***************************************************************************)
(* Colors, brushes and the drawing state (GraphicsContextState).           *)
(***************************************************************************)
Colors == {"black", "red", "transparent"}

\* A brush is a color, a gradient with its space transform, or a pattern.
SolidBrush(color) ==
    [color |-> color, gradient |-> FALSE, pattern |-> FALSE,
     gradientSpaceTransform |-> <<1, 0, 0, 1, 0, 0>>]

GradientBrush ==
    [color |-> "black", gradient |-> TRUE, pattern |-> FALSE,
     gradientSpaceTransform |-> <<1, 0, 0, -1, 0, 0>>]

PatternBrush ==
    [color |-> "black", gradient |-> FALSE, pattern |-> TRUE,
     gradientSpaceTransform |-> <<1, 0, 0, 1, 0, 0>>]

\* SourceBrush::isVisible(): a gradient, a pattern or a color that is not
\* fully transparent.
isVisible(brush) ==
    brush.gradient \/ brush.pattern \/ brush.color # "transparent"

NoShadow == [present |-> FALSE, offset |-> <<0, 0>>, radius |-> 0,
             color |-> "transparent", opacity |-> 1]

\* GraphicsDropShadow::isVisible(): the color is visible
hasDropShadow(state) ==
    state.dropShadow.present
        /\ state.dropShadow.color \notin {"transparent", "invalid"}

\* GraphicsDropShadow::isBlurred(): visible with a non-zero radius
hasBlurredDropShadow(state) ==
    hasDropShadow(state) /\ state.dropShadow.radius # 0

\* GraphicsContextState::basicChangeFlags
basicChangeFlags == {"StrokeThickness", "StrokeBrush", "FillBrush"}

\* The state a GraphicsContext is constructed with.
InitialState ==
    [ fillBrush               |-> SolidBrush("black"),
      strokeBrush             |-> SolidBrush("black"),
      strokeStyle             |-> "SolidStroke",
      strokeThickness         |-> 0,
      fillRule                |-> "NonZero",
      alpha                   |-> 1,
      compositeOperator       |-> "SourceOver",
      blendMode               |-> "Normal",
      dropShadow              |-> NoShadow,
      shadowsIgnoreTransforms |-> FALSE,
      imageInterpolationQuality |-> "Default",
      style                   |-> NoShadow,
      textDrawingMode         |-> {"Fill"},
      shouldAntialias         |-> TRUE,
      shouldSmoothFonts       |-> TRUE,
      changes                 |-> basicChangeFlags ]

\* The graphics state of a CGContext before WebCore touches it.
InitialGState ==
    [ ctm       |-> CGAffineTransformIdentity,
      baseCTM   |-> CGAffineTransformIdentity,
      clip      |-> << >>,
      fillColor |-> "black",
      strokeColor |-> "black",
      lineWidth |-> 1,
      alpha     |-> 1,
      blendMode |-> "kCGBlendModeNormal",
      style     |-> <<"none">>,
      lineDash  |-> <<"solid">>,
      shouldAntialias |-> TRUE,
      interpolationQuality |-> "kCGInterpolationDefault" ]

(***************************************************************************)
(* selectCGBlendMode                                                       *)
(***************************************************************************)
CompositeOperators ==
    {"Clear", "Copy", "SourceOver", "SourceIn", "SourceOut", "SourceAtop",
     "DestinationOver", "DestinationIn", "DestinationOut", "DestinationAtop",
     "XOR", "PlusDarker", "PlusLighter", "Difference"}

BlendModes ==
    {"Normal", "Multiply", "Screen", "Overlay", "Darken", "Lighten",
     "ColorDodge", "ColorBurn", "HardLight", "SoftLight", "Difference",
     "Exclusion", "Hue", "Saturation", "Color", "Luminosity", "PlusDarker",
     "PlusLighter"}

\* a selection that knows the Normal constant only
selectCGBlendMode_alwaysNormal(compositeOperator, blendMode) ==
    "kCGBlendModeNormal"

selectCGBlendMode(compositeOperator, blendMode) ==
    CASE blendMode = "Normal" ->
           ( CASE compositeOperator = "Clear"           -> "kCGBlendModeClear"
               [] compositeOperator = "Copy"            -> "kCGBlendModeCopy"
               [] compositeOperator = "SourceOver"      -> "kCGBlendModeNormal"
               [] compositeOperator = "SourceIn"        -> "kCGBlendModeSourceIn"
               [] compositeOperator = "SourceOut"       -> "kCGBlendModeSourceOut"
               [] compositeOperator = "SourceAtop"      -> "kCGBlendModeSourceAtop"
               [] compositeOperator = "DestinationOver" -> "kCGBlendModeDestinationOver"
               [] compositeOperator = "DestinationIn"   -> "kCGBlendModeDestinationIn"
               [] compositeOperator = "DestinationOut"  -> "kCGBlendModeDestinationOut"
               [] compositeOperator = "DestinationAtop" -> "kCGBlendModeDestinationAtop"
               [] compositeOperator = "XOR"             -> "kCGBlendModeXOR"
               [] compositeOperator = "PlusDarker"      -> "kCGBlendModePlusDarker"
               [] compositeOperator = "PlusLighter"     -> "kCGBlendModePlusLighter"
               [] compositeOperator = "Difference"      -> "kCGBlendModeDifference"
               [] OTHER                                 -> "kCGBlendModeNormal" )
      [] blendMode = "Multiply"    -> "kCGBlendModeMultiply"
      [] blendMode = "Screen"      -> "kCGBlendModeScreen"
      [] blendMode = "Overlay"     -> "kCGBlendModeOverlay"
      [] blendMode = "Darken"      -> "kCGBlendModeDarken"
      [] blendMode = "Lighten"     -> "kCGBlendModeLighten"
      [] blendMode = "ColorDodge"  -> "kCGBlendModeColorDodge"
      [] blendMode = "ColorBurn"   -> "kCGBlendModeColorBurn"
      [] blendMode = "HardLight"   -> "kCGBlendModeHardLight"
      [] blendMode = "SoftLight"   -> "kCGBlendModeSoftLight"
      [] blendMode = "Difference"  -> "kCGBlendModeDifference"
      [] blendMode = "Exclusion"   -> "kCGBlendModeExclusion"
      [] blendMode = "Hue"         -> "kCGBlendModeHue"
      [] blendMode = "Saturation"  -> "kCGBlendModeSaturation"
      [] blendMode = "Color"       -> "kCGBlendModeColor"
      [] blendMode = "Luminosity"  -> "kCGBlendModeLuminosity"
      [] blendMode = "PlusDarker"  -> "kCGBlendModePlusDarker"
      [] blendMode = "PlusLighter" -> "kCGBlendModePlusLighter"
      [] OTHER                     -> "kCGBlendModeNormal"

(***************************************************************************)
(* A context value: the fields a method reads and writes.  Every method is *)
(* an operator from a context value to a context value, so that a method   *)
(* calling another one is the composition of the two.                      *)
(***************************************************************************)
Cur ==
    [ state   |-> m_state,
      stack   |-> m_stack,
      known   |-> m_userToDeviceTransformKnownToBeIdentity,
      cg      |-> cg,
      cgStack |-> cgStack,
      layers  |-> cgLayers,
      calls   |-> << >>,
      snaps   |-> snapshots,
      images  |-> tileImages ]

Becomes(c) ==
    /\ m_state' = c.state
    /\ m_stack' = c.stack
    /\ m_userToDeviceTransformKnownToBeIdentity' = c.known
    /\ cg' = c.cg
    /\ cgStack' = c.cgStack
    /\ cgLayers' = c.layers
    /\ calls' = c.calls
    /\ snapshots' = c.snaps
    /\ tileImages' = c.images
    /\ UNCHANGED <<contextType, m_renderingMode>>

\* A backend call that replaces the current graphics state by g.
Backend(c, by, fn, arg, g) ==
    [c EXCEPT !.cg = g, !.calls = Append(@, Call(by, fn, arg))]

\* A backend call that leaves the graphics state alone (a drawing call, a
\* query).
Issue(c, by, fn, arg) == [c EXCEPT !.calls = Append(@, Call(by, fn, arg))]

Last(s) == s[Len(s)]

Front(s) == SubSeq(s, 1, Len(s) - 1)

CGContextSaveGState(c, by) ==
    [c EXCEPT !.cgStack = Append(@, c.cg),
              !.calls = Append(@, Call(by, "CGContextSaveGState", ""))]

\* With no saved graphics state CoreGraphics leaves the state alone.
CGContextRestoreGState(c, by) ==
    IF c.cgStack = << >>
    THEN Issue(c, by, "CGContextRestoreGState", "")
    ELSE [c EXCEPT !.cg = Last(c.cgStack),
                   !.cgStack = Front(c.cgStack),
                   !.calls = Append(@, Call(by, "CGContextRestoreGState", ""))]

setCGFillColor(c, by, color) ==
    Backend(c, by, "CGContextSetFillColorWithColor", color,
            CGContextSetFillColorWithColor(c.cg, color))

setCGBlendMode(c, by, op, blendMode) ==
    Backend(c, by, "CGContextSetBlendMode", selectCGBlendMode(op, blendMode),
            CGContextSetBlendMode(c.cg, selectCGBlendMode(op, blendMode)))


(***************************************************************************)
(* Drop shadow installation and the synchronisation of the backend with    *)
(* the dirty fields of the drawing state.                                  *)
(***************************************************************************)
scaledBlurRadius_unclamped(blurRadius, userToBaseCTM, shadowsIgnoreTransforms) ==
    IF shadowsIgnoreTransforms THEN blurRadius
    ELSE blurRadius * ISqrt(userToBaseCTM[1] * userToBaseCTM[1]
                            + userToBaseCTM[2] * userToBaseCTM[2])

scaledBlurRadius(blurRadius, userToBaseCTM, shadowsIgnoreTransforms) ==
    LET A == userToBaseCTM[1] * userToBaseCTM[1] + userToBaseCTM[2] * userToBaseCTM[2]
        B == userToBaseCTM[1] * userToBaseCTM[3] + userToBaseCTM[2] * userToBaseCTM[4]
        C == B
        D == userToBaseCTM[3] * userToBaseCTM[3] + userToBaseCTM[4] * userToBaseCTM[4]
        smallEigenvalue ==
            ISqrt(((A + D) - ISqrt(4 * B * C + (A - D) * (A - D))) \div 2)
        scaled == IF shadowsIgnoreTransforms THEN blurRadius
                  ELSE blurRadius * smallEigenvalue
    IN  Min(scaled, 1000)

clearCGDropShadow(c, by) ==
    Backend(c, by, "CGContextSetStyle", "nullptr",
            CGContextSetStyle(c.cg, <<"none">>))

\* CGSizeApplyAffineTransform
CGSizeApplyAffineTransform(size, t) ==
    << t[1] * size[1] + t[3] * size[2], t[2] * size[1] + t[4] * size[2] >>

setCGDropShadow_clearingTransparent(c, by, shadow, shadowsIgnoreTransforms) ==
    IF \/ ~shadow.present
       \/ shadow.color \in {"invalid", "transparent"}
       \/ (shadow.offset = <<0, 0>> /\ shadow.radius = 0)
    THEN clearCGDropShadow(c, by)
    ELSE LET userToBaseCTM == getUserToBaseCTM(c.cg)
             blurRadius == scaledBlurRadius(shadow.radius, userToBaseCTM,
                                            shadowsIgnoreTransforms)
             offset == IF shadowsIgnoreTransforms THEN shadow.offset
                       ELSE CGSizeApplyAffineTransform(shadow.offset, userToBaseCTM)
             c1 == Backend(c, by, "CGContextSetAlpha", shadow.opacity,
                           CGContextSetAlpha(c.cg, shadow.opacity))
         IN  Backend(c1, by, "CGContextSetStyle", "shadow",
                     CGContextSetStyle(c1.cg,
                         <<"shadow", offset, blurRadius, shadow.color>>))

setCGDropShadow(c, by, shadow, shadowsIgnoreTransforms) ==
    IF \/ ~shadow.present
       \/ shadow.color = "invalid"
       \/ (shadow.offset = <<0, 0>> /\ shadow.radius = 0)
    THEN clearCGDropShadow(c, by)
    ELSE LET userToBaseCTM == getUserToBaseCTM(c.cg)
             blurRadius == scaledBlurRadius(shadow.radius, userToBaseCTM,
                                            shadowsIgnoreTransforms)
             offset == IF shadowsIgnoreTransforms THEN shadow.offset
                       ELSE CGSizeApplyAffineTransform(shadow.offset, userToBaseCTM)
             c1 == Backend(c, by, "CGContextSetAlpha", shadow.opacity,
                           CGContextSetAlpha(c.cg, shadow.opacity))
         IN  Backend(c1, by, "CGContextSetStyle", "shadow",
                     CGContextSetStyle(c1.cg,
                         <<"shadow", offset, blurRadius, shadow.color>>))

CGContextSetInterpolationQuality(g, quality) ==
    [g EXCEPT !.interpolationQuality = quality]

toCGInterpolationQuality(quality) ==
    CASE quality = "Default" -> "kCGInterpolationDefault"
      [] quality = "DoNotInterpolate" -> "kCGInterpolationNone"
      [] quality = "Low" -> "kCGInterpolationLow"
      [] quality = "Medium" -> "kCGInterpolationMedium"
      [] quality = "High" -> "kCGInterpolationHigh"

\* A style is absent or a drop shadow (the Gaussian blur and the color
\* matrix exist only under HAVE(CGSTYLE_COLORMATRIX_BLUR)).
setCGStyle(c, by, style, shadowsIgnoreTransforms) ==
    IF ~style.present
    THEN Backend(c, by, "CGContextSetStyle", "nullptr",
                 CGContextSetStyle(c.cg, <<"none">>))
    ELSE setCGDropShadow(c, by, style, shadowsIgnoreTransforms)

cgTextDrawingMode(mode) ==
    IF "Fill" \in mode /\ "Stroke" \in mode THEN "kCGTextFillStroke"
    ELSE IF "Fill" \in mode THEN "kCGTextFill"
    ELSE "kCGTextStroke"

CGContextSetShouldAntialias(g, shouldAntialias) ==
    [g EXCEPT !.shouldAntialias = shouldAntialias]

\* The dirty fields in the order the loop visits them.
ChangeOrder ==
    <<"FillBrush", "StrokeBrush", "StrokeThickness", "CompositeMode",
      "DropShadow", "Style", "Alpha", "ImageInterpolationQuality",
      "TextDrawingMode", "ShouldAntialias", "ShouldSmoothFonts">>

applyChange(c, change) ==
    CASE change = "FillBrush" ->
           setCGFillColor(c, "didUpdateState", c.state.fillBrush.color)
      [] change = "StrokeThickness" ->
           Backend(c, "didUpdateState", "CGContextSetLineWidth",
                   Max(c.state.strokeThickness, 0),
                   CGContextSetLineWidth(c.cg, Max(c.state.strokeThickness, 0)))
      [] change = "StrokeBrush" ->
           Backend(c, "didUpdateState", "CGContextSetStrokeColorWithColor",
                   c.state.strokeBrush.color,
                   CGContextSetStrokeColorWithColor(c.cg, c.state.strokeBrush.color))
      [] change = "CompositeMode" ->
           setCGBlendMode(c, "didUpdateState", c.state.compositeOperator,
                          c.state.blendMode)
      [] change = "DropShadow" ->
           setCGDropShadow(c, "didUpdateState", c.state.dropShadow,
                           c.state.shadowsIgnoreTransforms)
      [] change = "Alpha" ->
           Backend(c, "didUpdateState", "CGContextSetAlpha", c.state.alpha,
                   CGContextSetAlpha(c.cg, c.state.alpha))
      [] change = "ImageInterpolationQuality" ->
           Backend(c, "didUpdateState", "CGContextSetInterpolationQuality",
                   toCGInterpolationQuality(c.state.imageInterpolationQuality),
                   CGContextSetInterpolationQuality(c.cg,
                       toCGInterpolationQuality(c.state.imageInterpolationQuality)))
      [] change = "Style" ->
           setCGStyle(c, "didUpdateState", c.state.style,
                      c.state.shadowsIgnoreTransforms)
      [] change = "TextDrawingMode" ->
           Issue(c, "didUpdateState", "CGContextSetTextDrawingMode",
                 cgTextDrawingMode(c.state.textDrawingMode))
      [] change = "ShouldAntialias" ->
           Backend(c, "didUpdateState", "CGContextSetShouldAntialias",
                   c.state.shouldAntialias,
                   CGContextSetShouldAntialias(c.cg, c.state.shouldAntialias))
      [] change = "ShouldSmoothFonts" ->
           Issue(c, "didUpdateState", "CGContextSetShouldSmoothFonts",
                 c.state.shouldSmoothFonts)
      [] OTHER -> c

RECURSIVE applyChanges(_, _)
applyChanges(c, i) ==
    IF i > Len(ChangeOrder) THEN c
    ELSE applyChanges(IF ChangeOrder[i] \in c.state.changes
                      THEN applyChange(c, ChangeOrder[i]) ELSE c,
                      i + 1)

\* didUpdateState() without state.didApplyChanges()
didUpdateState_withoutDidApplyChanges(c) ==
    IF c.state.changes = {} THEN c
    ELSE applyChanges(c, 1)

didUpdateState(c) ==
    IF c.state.changes = {} THEN c
    ELSE [applyChanges(c, 1) EXCEPT !.state.changes = {}]

\* GraphicsContextState::setProperty: the field takes the value and, when
\* the value differs, the change is recorded; the backend is not touched.
setProperty(c, field, value, change) ==
    IF c.state[field] = value THEN c
    ELSE [c EXCEPT !.state[field] = value,
                   !.state.changes = @ \cup {change}]

\* GraphicsContext::set<Field>: GraphicsContextState records the change when
\* the value differs, then the context synchronises the backend.
setStateField(c, field, value, change) ==
    didUpdateState(
        IF c.state[field] = value THEN c
        ELSE [c EXCEPT !.state[field] = value,
                       !.state.changes = @ \cup {change}])

setStrokeThickness(c, thickness) ==
    setStateField(c, "strokeThickness", thickness, "StrokeThickness")

setFillBrush(c, brush) == setStateField(c, "fillBrush", brush, "FillBrush")

setStrokeBrush(c, brush) == setStateField(c, "strokeBrush", brush, "StrokeBrush")

setStrokeStyle(c, style) == setStateField(c, "strokeStyle", style, "StrokeStyle")

setFillRule(c, rule) == setStateField(c, "fillRule", rule, "FillRule")

setAlpha(c, alpha) == setStateField(c, "alpha", alpha, "Alpha")

CGContextSetLineDash(g, phase, lengths) ==
    [g EXCEPT !.lineDash = <<"dash", phase, lengths>>]

\* fmod: the remainder has the sign of the dividend
fmod(x, y) == IF x >= 0 THEN x % y ELSE -((-x) % y)

RECURSIVE dashLength(_)
dashLength(dashes) ==
    IF dashes = << >> THEN 0 ELSE dashes[1] + dashLength(Tail(dashes))

setLineDash_withoutNormalization(c, dashes, dashOffset) ==
    Backend(c, "setLineDash", "CGContextSetLineDash", <<dashOffset, dashes>>,
            CGContextSetLineDash(c.cg, dashOffset, dashes))

setLineDash(c, dashes, dashOffset) ==
    LET length == dashLength(dashes)
        offset == IF dashOffset < 0 /\ length # 0
                  THEN fmod(dashOffset, length) + length
                  ELSE dashOffset
    IN  Backend(c, "setLineDash", "CGContextSetLineDash", <<offset, dashes>>,
                CGContextSetLineDash(c.cg, offset, dashes))

setDropShadow(c, shadow) == setStateField(c, "dropShadow", shadow, "DropShadow")

\* The flag has no case in didUpdateState: only m_state changes.
setShadowsIgnoreTransforms(c, shadowsIgnoreTransforms) ==
    setStateField(c, "shadowsIgnoreTransforms", shadowsIgnoreTransforms,
                  "ShadowsIgnoreTransforms")

setCompositeMode(c, op, blendMode) ==
    didUpdateState(
        IF c.state.compositeOperator = op /\ c.state.blendMode = blendMode THEN c
        ELSE [c EXCEPT !.state.compositeOperator = op,
                       !.state.blendMode = blendMode,
                       !.state.changes = @ \cup {"CompositeMode"}])

setImageInterpolationQuality(c, quality) ==
    setStateField(c, "imageInterpolationQuality", quality,
                  "ImageInterpolationQuality")

(***************************************************************************)
(* Construction.                                                           *)
(***************************************************************************)
renderingModeForCGContext(type, source) ==
    IF type = "kCGContextTypeIOSurface"
       \/ (source = "CGContextFromCALayer" /\ type = "kCGContextTypeUnknown")
    THEN "Accelerated"
    ELSE IF type = "kCGContextTypePDF" THEN "PDFDocument"
    ELSE "Unaccelerated"

\* GraphicsContextCG(cgContext, source, knownRenderingMode): the state is
\* the default one with the basic change flags, synchronised at once.
Constructed ==
    didUpdateState(
        [ state   |-> InitialState,
          stack   |-> << >>,
          known   |-> FALSE,
          cg      |-> InitialGState,
          cgStack |-> << >>,
          layers  |-> 0,
          calls   |-> << >>,
          snaps   |-> << >>,
          images  |-> << >> ])

InitContext(type, source) ==
    /\ contextType = type
    /\ m_renderingMode = renderingModeForCGContext(type, source)
    /\ m_state = Constructed.state
    /\ m_stack = << >>
    /\ m_userToDeviceTransformKnownToBeIdentity = FALSE
    /\ cg = Constructed.cg
    /\ cgStack = << >>
    /\ cgLayers = 0
    /\ calls = << >>
    /\ lastOp = <<"GraphicsContextCG">>
    /\ snapshots = << >>
    /\ tileImages = << >>

(***************************************************************************)
(* save / restore and transparency layers.                                 *)
(***************************************************************************)
stackSize(c) == Len(c.stack)

\* GraphicsContext::save: push a copy of the current state.
\* GraphicsContext::save(purpose): the state is pushed; the history keeps
\* what the caller saw, the purpose of the push and the open layers.
GraphicsContext_saveFor(c, purpose) ==
    [c EXCEPT !.stack = Append(@, c.state),
              !.snaps = Append(@, <<c.state, c.cg, purpose, c.layers>>)]

GraphicsContext_save(c) == GraphicsContext_saveFor(c, "SaveRestore")

\* GraphicsContext::restore: the top of the stack becomes the state.
GraphicsContext_restore(c) ==
    IF c.stack = << >> THEN c
    ELSE [c EXCEPT !.state = Last(c.stack),
                   !.stack = Front(c.stack),
                   !.snaps = Front(c.snaps)]

\* save() that pushes the state copy but issues no backend save
save_withoutBackendSave(c) == GraphicsContext_save(c)

save(c) == CGContextSaveGState(GraphicsContext_save(c), "save")

\* restore() that pops the state copy but leaves the backend as it is
restore_withoutBackendRestore(c) ==
    IF stackSize(c) = 0 THEN c
    ELSE [GraphicsContext_restore(c) EXCEPT !.known = FALSE]

\* restore() without the check for an empty stack
restore_unguarded(c) ==
    [CGContextRestoreGState(GraphicsContext_restore(c), "restore")
        EXCEPT !.known = FALSE]

restore(c) ==
    IF stackSize(c) = 0 THEN c
    ELSE [CGContextRestoreGState(GraphicsContext_restore(c), "restore")
            EXCEPT !.known = FALSE]

\* save(GraphicsContextState::Purpose::TransparencyLayer), then the alpha
\* of the layer and the layer itself.
beginTransparencyLayer(c, opacity) ==
    LET c1 == CGContextSaveGState(
                  GraphicsContext_saveFor(c, "TransparencyLayer"), "save")
        c2 == Backend(c1, "beginTransparencyLayer", "CGContextSetAlpha", opacity,
                      CGContextSetAlpha(c1.cg, opacity))
        c3 == Issue(c2, "beginTransparencyLayer",
                    "CGContextBeginTransparencyLayer", "")
    IN  [c3 EXCEPT !.layers = @ + 1, !.known = FALSE]

\* endTransparencyLayer() that restores the state before it closes the layer
endTransparencyLayer_restoringFirst(c) ==
    LET c1 == restore(c)
        c2 == Issue(c1, "endTransparencyLayer", "CGContextEndTransparencyLayer", "")
    IN  [c2 EXCEPT !.layers = @ - 1]

endTransparencyLayer(c) ==
    LET c1 == Issue(c, "endTransparencyLayer", "CGContextEndTransparencyLayer", "")
    IN  restore([c1 EXCEPT !.layers = @ - 1])

(***************************************************************************)
(* Transform operations and device-pixel rounding.                         *)
(***************************************************************************)
\* scale() that leaves the cached flag as it is
scale_keepingFlag(c, sx, sy) ==
    Backend(c, "scale", "CGContextScaleCTM", <<sx, sy>>,
            CGContextScaleCTM(c.cg, sx, sy))

scale(c, sx, sy) ==
    [Backend(c, "scale", "CGContextScaleCTM", <<sx, sy>>,
             CGContextScaleCTM(c.cg, sx, sy))
        EXCEPT !.known = FALSE]

rotate(c, quarters) ==
    [Backend(c, "rotate", "CGContextRotateCTM", quarters,
             CGContextRotateCTM(c.cg, quarters))
        EXCEPT !.known = FALSE]

translate(c, x, y) ==
    [Backend(c, "translate", "CGContextTranslateCTM", <<x, y>>,
             CGContextTranslateCTM(c.cg, x, y))
        EXCEPT !.known = FALSE]

concatCTM(c, transform) ==
    [Backend(c, "concatCTM", "CGContextConcatCTM", transform,
             CGContextConcatCTM(c.cg, transform))
        EXCEPT !.known = FALSE]

setCTM(c, transform) ==
    [Backend(c, "setCTM", "CGContextSetCTM", transform,
             CGContextSetCTM(c.cg, transform))
        EXCEPT !.known = FALSE]

getCTM(c) == CGContextGetCTM(c.cg)

applyDeviceScaleFactor_keepingFlag(c, deviceScaleFactor) ==
    LET c1 == scale_keepingFlag(c, deviceScaleFactor, deviceScaleFactor)
        baseCTM == CGAffineTransformConcat(
                       MakeScale(deviceScaleFactor, deviceScaleFactor),
                       c1.cg.baseCTM)
    IN  Backend(c1, "applyDeviceScaleFactor", "CGContextSetBaseCTM", baseCTM,
                CGContextSetBaseCTM(c1.cg, baseCTM))

\* GraphicsContext::applyDeviceScaleFactor scales the context through
\* scale(); the base transform of the backend is then scaled as well.
applyDeviceScaleFactor(c, deviceScaleFactor) ==
    LET c1 == scale(c, deviceScaleFactor, deviceScaleFactor)
        baseCTM == CGAffineTransformConcat(
                       MakeScale(deviceScaleFactor, deviceScaleFactor),
                       c1.cg.baseCTM)
    IN  Backend(c1, "applyDeviceScaleFactor", "CGContextSetBaseCTM", baseCTM,
                CGContextSetBaseCTM(c1.cg, baseCTM))

\* The rounded rectangle itself is not modelled: the method is observed
\* through the flag and through its read of the backend transform.
roundToDevicePixels(c) ==
    IF ~c.known
    THEN LET c1 == Issue(c, "roundToDevicePixels",
                         "CGContextGetUserSpaceToDeviceSpaceTransform", "")
             deviceMatrix == CGContextGetUserSpaceToDeviceSpaceTransform(c.cg)
         IN  IF CGAffineTransformIsIdentity(deviceMatrix)
             THEN [c1 EXCEPT !.known = TRUE]
             ELSE c1
    ELSE c


(***************************************************************************)
(* Path drawing.  A path is "empty", a single "line" segment or another    *)
(* "shape".  patternOK tells whether Pattern::createPlatformPattern        *)
(* returns a pattern.                                                      *)
(***************************************************************************)
Paths == {"empty", "line", "shape"}

applyStrokePattern(c, patternOK) ==
    IF ~c.state.strokeBrush.pattern THEN c
    ELSE IF ~patternOK THEN c
    ELSE LET c1 == Issue(c, "applyStrokePattern", "CGContextSetStrokeColorSpace",
                         "pattern")
         IN  Backend(c1, "applyStrokePattern", "CGContextSetStrokePattern", "",
                     CGContextSetStrokeColorWithColor(c1.cg, "pattern"))

applyFillPattern(c, patternOK) ==
    IF ~c.state.fillBrush.pattern THEN c
    ELSE IF ~patternOK THEN c
    ELSE LET c1 == Issue(c, "applyFillPattern", "CGContextSetFillColorSpace",
                         "pattern")
         IN  Backend(c1, "applyFillPattern", "CGContextSetFillPattern", "",
                     CGContextSetFillColorWithColor(c1.cg, "pattern"))

\* The result and the mode written through the reference parameter.
calculateDrawingMode(state) ==
    LET shouldFill   == isVisible(state.fillBrush)
        shouldStroke == isVisible(state.strokeBrush)
                          \/ state.strokeStyle # "NoStroke"
        useEOFill    == state.fillRule = "EvenOdd"
    IN  [ mode |-> IF shouldFill
                   THEN IF shouldStroke
                        THEN (IF useEOFill THEN "kCGPathEOFillStroke"
                                           ELSE "kCGPathFillStroke")
                        ELSE (IF useEOFill THEN "kCGPathEOFill"
                                           ELSE "kCGPathFill")
                   ELSE "kCGPathStroke",
          result |-> shouldFill \/ shouldStroke ]

\* gradient.paint(*this): the gradient receives the context itself, with
\* the cached flag and the backend transform of that moment.
paintInContext(c, by) ==
    Issue(c, by, "Gradient::paint",
          [known |-> c.known,
           deviceMatrix |-> CGContextGetUserSpaceToDeviceSpaceTransform(c.cg)])

drawPathWithCGContext(c, by, drawingMode) ==
    Issue(c, by, "CGContextDrawPathDirect", drawingMode)

setCGContextPath(c, by) ==
    Issue(Issue(c, by, "CGContextBeginPath", ""), by, "addToCGContextPath", "")

fillPath(c, path, patternOK) ==
    IF path = "empty" THEN c
    ELSE IF c.state.fillBrush.gradient
    THEN IF hasDropShadow(c.state)
         THEN LET c1 == Issue(c, "fillPath", "CGLayerCreateWithContext", "")
                  c2 == Issue(c1, "fillPath", "CGContextScaleCTM@layer", "")
                  c3 == Issue(c2, "fillPath", "CGContextTranslateCTM@layer", "")
                  c4 == Issue(c3, "fillPath", "addToCGContextPath@layer", "")
                  c5 == Issue(c4, "fillPath", "CGContextConcatCTM@layer", "")
                  c6 == Issue(c5, "fillPath",
                              IF c.state.fillRule = "EvenOdd"
                              THEN "CGContextEOClip@layer"
                              ELSE "CGContextClip@layer", "")
                  c7 == Issue(c6, "fillPath", "Gradient::paint@layer", "")
              IN  Issue(c7, "fillPath", "CGContextDrawLayerInRect", "")
         ELSE LET c1 == setCGContextPath(c, "fillPath")
                  c2 == CGContextSaveGState(c1, "fillPath")
                  c3 == Backend(c2, "fillPath", "CGContextConcatCTM", "",
                                CGContextConcatCTM(c2.cg,
                                    c.state.fillBrush.gradientSpaceTransform))
                  c4 == IF c.state.fillRule = "EvenOdd"
                        THEN Backend(c3, "fillPath", "CGContextEOClip", "",
                                     CGContextEOClip(c3.cg, path))
                        ELSE Backend(c3, "fillPath", "CGContextClip", "",
                                     CGContextClip(c3.cg, path))
                  c5 == paintInContext(c4, "fillPath")
              IN  CGContextRestoreGState(c5, "fillPath")
    ELSE drawPathWithCGContext(
             applyFillPattern(c, patternOK), "fillPath",
             IF c.state.fillRule = "EvenOdd" THEN "kCGPathEOFill"
                                             ELSE "kCGPathFill")

strokePath(c, path, patternOK) ==
    IF path = "empty" THEN c
    ELSE IF c.state.strokeBrush.gradient
    THEN IF hasDropShadow(c.state)
         THEN LET c1 == Issue(c, "strokePath", "CGLayerCreateWithContext", "")
                  c2 == Issue(c1, "strokePath", "CGContextSetLineWidth@layer", "")
                  c3 == Issue(c2, "strokePath", "CGContextScaleCTM@layer", "")
                  c4 == Issue(c3, "strokePath", "CGContextTranslateCTM@layer", "")
                  c5 == Issue(c4, "strokePath", "addToCGContextPath@layer", "")
                  c6 == Issue(c5, "strokePath",
                              "CGContextReplacePathWithStrokedPath@layer", "")
                  c7 == Issue(c6, "strokePath", "CGContextClip@layer", "")
                  c8 == Issue(c7, "strokePath", "CGContextConcatCTM@layer", "")
                  c9 == Issue(c8, "strokePath", "Gradient::paint@layer", "")
              IN  Issue(c9, "strokePath", "CGContextDrawLayerInRect", "")
         ELSE LET c1 == CGContextSaveGState(c, "strokePath")
                  c2 == setCGContextPath(c1, "strokePath")
                  c3 == Issue(c2, "strokePath",
                              "CGContextReplacePathWithStrokedPath", "")
                  c4 == Backend(c3, "strokePath", "CGContextClip", "",
                                CGContextClip(c3.cg, path))
                  c5 == Backend(c4, "strokePath", "CGContextConcatCTM", "",
                                CGContextConcatCTM(c4.cg,
                                    c.state.strokeBrush.gradientSpaceTransform))
                  c6 == paintInContext(c5, "strokePath")
              IN  CGContextRestoreGState(c6, "strokePath")
    ELSE LET c1 == applyStrokePattern(c, patternOK)
         IN  IF path = "line"
             THEN Issue(c1, "strokePath", "CGContextStrokeLineSegments", "")
             ELSE drawPathWithCGContext(c1, "strokePath", "kCGPathStroke")

\* drawPath() that takes the combined draw call whatever the brushes are
drawPath_withoutGradientPasses(c, path, patternOK) ==
    IF path = "empty" THEN c
    ELSE LET c1 == applyStrokePattern(applyFillPattern(c, patternOK), patternOK)
             drawingMode == calculateDrawingMode(c.state)
         IN  IF drawingMode.result
             THEN drawPathWithCGContext(c1, "drawPath", drawingMode.mode)
             ELSE c1

\* drawPath() that never uses the even-odd modes
drawPath_ignoringFillRule(c, path, patternOK) ==
    IF path = "empty" THEN c
    ELSE IF c.state.fillBrush.gradient \/ c.state.strokeBrush.gradient
    THEN strokePath(fillPath(c, path, patternOK), path, patternOK)
    ELSE LET c1 == applyStrokePattern(applyFillPattern(c, patternOK), patternOK)
             drawingMode ==
                 calculateDrawingMode([c.state EXCEPT !.fillRule = "NonZero"])
         IN  IF drawingMode.result
             THEN drawPathWithCGContext(c1, "drawPath", drawingMode.mode)
             ELSE c1

\* drawPath() without the test for an empty path
drawPath_withoutEmptyCheck(c, path, patternOK) ==
    IF c.state.fillBrush.gradient \/ c.state.strokeBrush.gradient
    THEN strokePath(fillPath(c, path, patternOK), path, patternOK)
    ELSE LET c1 == applyStrokePattern(applyFillPattern(c, patternOK), patternOK)
             drawingMode == calculateDrawingMode(c.state)
         IN  IF drawingMode.result
             THEN drawPathWithCGContext(c1, "drawPath", drawingMode.mode)
             ELSE c1

drawPath(c, path, patternOK) ==
    IF path = "empty" THEN c
    ELSE IF c.state.fillBrush.gradient \/ c.state.strokeBrush.gradient
    THEN strokePath(fillPath(c, path, patternOK), path, patternOK)
    ELSE LET c1 == applyStrokePattern(applyFillPattern(c, patternOK), patternOK)
             drawingMode == calculateDrawingMode(c.state)
         IN  IF drawingMode.result
             THEN drawPathWithCGContext(c1, "drawPath", drawingMode.mode)
             ELSE c1

(***************************************************************************)
(* Images.  A rectangle is <<x, y, width, height>>, a size <<width,        *)
(* height>>.  A NativeImage has its size() and the platform image, which   *)
(* is absent or has the pixel width and height CGImageGetWidth and         *)
(* CGImageGetHeight report (smaller than size() while the image is only    *)
(* partially decoded).                                                     *)
(***************************************************************************)
normalizeRect(r) ==
    <<Min(r[1], r[1] + r[3]), Min(r[2], r[2] + r[4]), Abs(r[3]), Abs(r[4])>>

isEmptyRect(r) == r[3] <= 0 \/ r[4] <= 0

intersects(r, other) ==
    /\ ~isEmptyRect(r)
    /\ ~isEmptyRect(other)
    /\ r[1] < other[1] + other[3]
    /\ other[1] < r[1] + r[3]
    /\ r[2] < other[2] + other[4]
    /\ other[2] < r[2] + r[4]

contains(r, other) ==
    /\ r[1] <= other[1]
    /\ r[1] + r[3] >= other[1] + other[3]
    /\ r[2] <= other[2]
    /\ r[2] + r[4] >= other[2] + other[4]

transposedSize(size) == <<size[2], size[1]>>

isRotateOrShear(t) == t[2] # 0 \/ t[3] # 0

xScale(t) == ISqrt(t[1] * t[1] + t[2] * t[2])

yScale(t) == ISqrt(t[3] * t[3] + t[4] * t[4])

\* Rectangles with integer coordinates are their own enclosing rectangle.
enclosingIntRect(r) == r

\* The image orientations drawn here, with ImageOrientation's
\* usesWidthAsHeight() and transformFromDefault(size).
Orientations == {"None", "OriginBottomRight", "OriginRightTop"}

usesWidthAsHeight(orientation) == orientation = "OriginRightTop"

transformFromDefault(orientation, size) ==
    CASE orientation = "OriginBottomRight" -> <<-1, 0, 0, -1, size[1], size[2]>>
      [] orientation = "OriginRightTop"    -> <<0, 1, -1, 0, size[1], 0>>
      [] OTHER -> CGAffineTransformIdentity

\* the lambda without the test of the interpolation quality
shouldUseSubimage_ignoringQuality(interpolationQuality, destRect, srcRect, transform) ==
    IF isRotateOrShear(transform) THEN TRUE
    ELSE \/ destRect[3] * xScale(transform) * srcRect[4]
              # destRect[4] * yScale(transform) * srcRect[3]
         \/ destRect[3] * xScale(transform) > srcRect[3]

\* The lambda of drawNativeImage; the two scales are compared as fractions
\* over srcRect's width and height.
shouldUseSubimage(interpolationQuality, destRect, srcRect, transform) ==
    IF interpolationQuality = "kCGInterpolationNone" THEN FALSE
    ELSE IF isRotateOrShear(transform) THEN TRUE
    ELSE \/ destRect[3] * xScale(transform) * srcRect[4]
              # destRect[4] * yScale(transform) * srcRect[3]
         \/ destRect[3] * xScale(transform) > srcRect[3]

\* destRect is a whole multiple of srcRect, so that the scale from source
\* to destination is a pair of integers.
IntegralScale(destRect, srcRect) ==
    LET d == normalizeRect(destRect)
        r == normalizeRect(srcRect)
    IN  /\ r[3] > 0
        /\ r[4] > 0
        /\ d[3] % r[3] = 0
        /\ d[4] % r[4] = 0

\* The rectangle the image is drawn into, lines 338-359.
adjustedDestRectFor(c, imageSize, normalizedDestRect, normalizedSrcRect) ==
    LET scaleFactor == <<normalizedDestRect[3] \div normalizedSrcRect[3],
                   normalizedDestRect[4] \div normalizedSrcRect[4]>>
        subimageRect == enclosingIntRect(normalizedSrcRect)
        subPixelPadding == <<normalizedSrcRect[1] - subimageRect[1],
                             normalizedSrcRect[2] - subimageRect[2]>>
    IN  IF normalizedSrcRect = <<0, 0, imageSize[1], imageSize[2]>>
        THEN [rect |-> normalizedDestRect, subImage |-> <<"image">>]
        ELSE IF shouldUseSubimage(c.cg.interpolationQuality, normalizedDestRect,
                                  normalizedSrcRect, CGContextGetCTM(c.cg))
        THEN [rect |-> <<normalizedDestRect[1] - subPixelPadding[1] * scaleFactor[1],
                         normalizedDestRect[2] - subPixelPadding[2] * scaleFactor[2],
                         subimageRect[3] * scaleFactor[1],
                         subimageRect[4] * scaleFactor[2]>>,
              subImage |-> <<"subimage", subimageRect>>]
        ELSE [rect |-> <<normalizedDestRect[1] - normalizedSrcRect[1] * scaleFactor[1],
                         normalizedDestRect[2] - normalizedSrcRect[2] * scaleFactor[2],
                         imageSize[1] * scaleFactor[1],
                         imageSize[2] * scaleFactor[2]>>,
              subImage |-> <<"image">>]

\* drawNativeImage's exit that leaves the transform and the blend mode of
\* the drawing behind
drawNativeImage_exit_withoutReset(c, didSave, transform, oldCompositeOperator, oldBlendMode) ==
    IF didSave THEN CGContextRestoreGState(c, "drawNativeImage") ELSE c

\* Lines 419-429 and the destructor of the CGContextStateSaver.
drawNativeImage_exit(c, didSave, transform, oldCompositeOperator, oldBlendMode) ==
    IF ~didSave
    THEN setCGBlendMode(
             Backend(c, "drawNativeImage", "CGContextSetCTM", transform,
                     CGContextSetCTM(c.cg, transform)),
             "drawNativeImage", oldCompositeOperator, oldBlendMode)
    ELSE CGContextRestoreGState(c, "drawNativeImage")

\* the image size whatever the orientation
orientedImageSize_untransposed(nativeImage, options) == nativeImage.size

\* Lines 272-274.
orientedImageSize(nativeImage, options) ==
    IF usesWidthAsHeight(options.orientation)
    THEN transposedSize(nativeImage.size)
    ELSE nativeImage.size

drawNativeImage(c, nativeImage, destRect, srcRect, options) ==
    LET imageSize == orientedImageSize(nativeImage, options)
        imageRect == <<0, 0, imageSize[1], imageSize[2]>>
        normalizedSrcRect == normalizeRect(srcRect)
        normalizedDestRect == normalizeRect(destRect)
        transform == CGContextGetCTM(c.cg)
        adjusted == adjustedDestRectFor(c, imageSize, normalizedDestRect,
                                        normalizedSrcRect)
        didSave == /\ normalizedSrcRect # imageRect
                   /\ ~contains(normalizedDestRect, adjusted.rect)
        c1 == IF didSave
              THEN LET saved == CGContextSaveGState(c, "drawNativeImage")
                   IN  Backend(saved, "drawNativeImage", "CGContextClipToRect",
                               normalizedDestRect,
                               CGContextClipToRect(saved.cg, normalizedDestRect))
              ELSE c
        oldCompositeOperator == c.state.compositeOperator
        oldBlendMode == c.state.blendMode
        c2 == setCGBlendMode(c1, "drawNativeImage", options.compositeOperator,
                             options.blendMode)
        c3 == Backend(c2, "drawNativeImage", "CGContextTranslateCTM",
                      <<adjusted.rect[1], adjusted.rect[2]>>,
                      CGContextTranslateCTM(c2.cg, adjusted.rect[1],
                                            adjusted.rect[2]))
        atOrigin == <<0, 0, adjusted.rect[3], adjusted.rect[4]>>
        c4 == IF options.orientation # "None"
              THEN Backend(c3, "drawNativeImage", "CGContextConcatCTM",
                       transformFromDefault(options.orientation,
                                            <<atOrigin[3], atOrigin[4]>>),
                       CGContextConcatCTM(c3.cg,
                           transformFromDefault(options.orientation,
                                                <<atOrigin[3], atOrigin[4]>>)))
              ELSE c3
        drawRect == IF options.orientation # "None"
                       /\ usesWidthAsHeight(options.orientation)
                    THEN <<0, 0, atOrigin[4], atOrigin[3]>>
                    ELSE atOrigin
        c5 == Backend(c4, "drawNativeImage", "CGContextTranslateCTM",
                      <<0, drawRect[4]>>,
                      CGContextTranslateCTM(c4.cg, 0, drawRect[4]))
        c6 == Backend(c5, "drawNativeImage", "CGContextScaleCTM", <<1, -1>>,
                      CGContextScaleCTM(c5.cg, 1, -1))
        c7 == Issue(c6, "drawNativeImage", "CGContextDrawImage",
                    <<drawRect, adjusted.subImage>>)
    IN  IF ~nativeImage.platformImage THEN c
        ELSE IF ~intersects(imageRect, normalizedSrcRect) THEN c
        ELSE drawNativeImage_exit(c7, didSave, transform, oldCompositeOperator,
                                  oldBlendMode)

(***************************************************************************)
(* drawPattern.  patternOK tells whether CGPatternCreate returns a         *)
(* pattern.                                                                *)
(***************************************************************************)
isInvertible(t) == t[1] * t[4] - t[2] * t[3] # 0

\* A retained tile image: who is to release the reference CGImageRetain
\* added ("pattern": the backend pattern, through its release callback;
\* "mainThreadTask": a task queued on the main thread; "none": nobody),
\* and how often it has been released.  The RetainPtr that line 497 wraps
\* around the result retains and releases once more, which cancels out.
CGImageRetain(c, by, image) ==
    [Issue(c, by, "CGImageRetain", image)
        EXCEPT !.images = Append(@, [owner |-> "none", releases |-> 0])]

\* CGPatternCreate hands the image (its `info`) to the pattern it returns;
\* it returns no pattern when patternOK is false.
CGPatternCreate(c, by, arg, patternOK) ==
    LET c1 == Issue(c, by, "CGPatternCreate", arg)
    IN  IF patternOK
        THEN [c1 EXCEPT !.images[Len(c.images)].owner = "pattern"]
        ELSE c1

\* the test of line 487 without the spacing
canDrawTiledImage_ignoringSpacing(w, h, imageSize, spacing) ==
    w = imageSize[1] /\ h = imageSize[2]

\* The condition of line 487.
canDrawTiledImage(w, h, imageSize, spacing) ==
    w = imageSize[1] /\ h = imageSize[2] /\ spacing[1] = 0 /\ spacing[2] = 0

drawPattern(c, nativeImage, destRect, tileRect, patternTransform, phase, spacing, options, patternOK) ==
    LET imageSize == nativeImage.size
        c1 == CGContextSaveGState(c, "drawPattern")
        c2 == Backend(c1, "drawPattern", "CGContextClipToRect", destRect,
                      CGContextClipToRect(c1.cg, destRect))
        c3 == setCGBlendMode(c2, "drawPattern", options.compositeOperator,
                             options.blendMode)
        c4 == Backend(c3, "drawPattern", "CGContextTranslateCTM",
                      <<destRect[1], destRect[2] + destRect[4]>>,
                      CGContextTranslateCTM(c3.cg, destRect[1],
                                            destRect[2] + destRect[4]))
        c5 == Backend(c4, "drawPattern", "CGContextScaleCTM", <<1, -1>>,
                      CGContextScaleCTM(c4.cg, 1, -1))
        scaledTileHeight == tileRect[4] * patternTransform[4]
        adjustedX == phase[1] - destRect[1] + tileRect[1] * patternTransform[1]
        adjustedY == destRect[4] - (phase[2] - destRect[2]
                        + tileRect[2] * patternTransform[4] + scaledTileHeight)
        h == nativeImage.height
        subImage == IF <<tileRect[3], tileRect[4]>> = imageSize
                    THEN <<"image">>
                    ELSE <<"subimage", tileRect>>
        scaledTileWidth == tileRect[3] * patternTransform[1]
        w == nativeImage.width
        matrix == CGAffineTransformConcat(
                      MakeTranslation(0, imageSize[2] - h),
                      CGAffineTransformConcat(
                          CGAffineTransformMake(patternTransform[1], 0, 0,
                              patternTransform[4], adjustedX, adjustedY),
                          CGContextGetCTM(c5.cg)))
        \* the steps, as fractions over the pattern transform's a and d
        xStep == [num |-> tileRect[3] * patternTransform[1] + spacing[1],
                  den |-> patternTransform[1]]
        yStep == [num |-> tileRect[4] * patternTransform[4] + spacing[2],
                  den |-> patternTransform[4]]
        p1 == CGImageRetain(c5, "drawPattern", subImage)
        p2 == CGPatternCreate(p1, "drawPattern",
                    <<subImage, <<0, 0, tileRect[3], tileRect[4]>>, matrix,
                      xStep, yStep>>, patternOK)
        p3 == Issue(p2, "drawPattern", "CGContextSetFillColorSpace", "pattern")
        p4 == Backend(p3, "drawPattern", "CGContextSetBaseCTM",
                      CGAffineTransformIdentity,
                      CGContextSetBaseCTM(p3.cg, CGAffineTransformIdentity))
        p5 == Issue(p4, "drawPattern", "CGContextSetPatternPhase", <<0, 0>>)
        p6 == Backend(p5, "drawPattern", "CGContextSetFillColorWithColor",
                      "pattern",
                      CGContextSetFillColorWithColor(p5.cg, "pattern"))
        p7 == Issue(p6, "drawPattern", "CGContextFillRect",
                    "CGContextGetClipBoundingBox")
    IN  IF ~isInvertible(patternTransform) THEN c
        ELSE IF canDrawTiledImage(w, h, imageSize, spacing)
        THEN CGContextRestoreGState(
                 Issue(c5, "drawPattern", "CGContextDrawTiledImage",
                       <<<<adjustedX, adjustedY, scaledTileWidth,
                           scaledTileHeight>>, subImage>>),
                 "drawPattern")
        ELSE IF ~patternOK THEN CGContextRestoreGState(p2, "drawPattern")
        ELSE CGContextRestoreGState(p7, "drawPattern")

(***************************************************************************)
(* Clipping out a rectangle, and the operations of a PDF context.          *)
(***************************************************************************)
CGContextGetType(c) == contextType

renderingMode(c) == m_renderingMode

\* clipOut(rect) that tests the transform on every kind of context
clipOut_ignoringRenderingMode(c, rect) ==
    LET ctm == getCTM(c)
        canUseCGRectInfinite ==
            /\ CGContextGetType(c) # "kCGContextTypePDF"
            /\ ctm[2] = 0 /\ ctm[3] = 0
        rects == <<IF canUseCGRectInfinite THEN "CGRectInfinite"
                   ELSE "CGContextGetClipBoundingBox", rect>>
        c1 == Issue(c, "clipOut", "CGContextBeginPath", "")
        c2 == Issue(c1, "clipOut", "CGContextAddRects", rects)
    IN  Backend(c2, "clipOut", "CGContextEOClip", "",
                CGContextEOClip(c2.cg, rects))

clipOut(c, rect) ==
    LET ctm == getCTM(c)
        canUseCGRectInfinite ==
            /\ CGContextGetType(c) # "kCGContextTypePDF"
            /\ \/ renderingMode(c) = "Unaccelerated"
               \/ (ctm[2] = 0 /\ ctm[3] = 0)
        rects == <<IF canUseCGRectInfinite THEN "CGRectInfinite"
                   ELSE "CGContextGetClipBoundingBox", rect>>
        c1 == Issue(c, "clipOut", "CGContextBeginPath", "")
        c2 == Issue(c1, "clipOut", "CGContextAddRects", rects)
    IN  Backend(c2, "clipOut", "CGContextEOClip", "",
                CGContextEOClip(c2.cg, rects))

beginPage(c, pageRect) ==
    IF CGContextGetType(c) # "kCGContextTypePDF" THEN c
    ELSE Issue(c, "beginPage", "CGPDFContextBeginPage", pageRect)

endPage(c) ==
    IF CGContextGetType(c) # "kCGContextTypePDF" THEN c
    ELSE Issue(c, "endPage", "CGPDFContextEndPage", "")

\* urlRef tells whether URL::createCFURL returns a CFURL.  The rectangle
\* handed over is destRect cut to the clip bounding box, under the
\* current transform.
setURLForRect(c, urlRef, destRect) ==
    IF ~urlRef THEN c
    ELSE Issue(c, "setURLForRect", "CGPDFContextSetURLForRect",
               <<destRect, "CGContextGetClipBoundingBox", CGContextGetCTM(c.cg)>>)

setDestinationForRect(c, name, destRect) ==
    Issue(c, "setDestinationForRect", "CGPDFContextSetDestinationForRect",
          <<name, destRect, "CGContextGetClipBoundingBox", CGContextGetCTM(c.cg)>>)

addDestinationAtPoint(c, name, position) ==
    Issue(c, "addDestinationAtPoint", "CGPDFContextAddDestinationAtPoint",
          <<name, position, CGContextGetCTM(c.cg)>>)

(***************************************************************************)
(* The methods as actions.                                                 *)
(***************************************************************************)
Op_save(limit) ==
    /\ Len(m_stack) < limit
    /\ Becomes(save(Cur))
    /\ lastOp' = <<"save">>

Op_restore ==
    /\ Becomes(restore(Cur))
    /\ lastOp' = <<"restore">>

Op_beginTransparencyLayer(opacity) ==
    /\ Len(m_stack) < MaxDepth
    /\ cgLayers < MaxLayers
    /\ Becomes(beginTransparencyLayer(Cur, opacity))
    /\ lastOp' = <<"beginTransparencyLayer", opacity>>

\* Ending a layer that was never begun is excluded by the callers.
Op_endTransparencyLayer ==
    /\ cgLayers > 0
    /\ Becomes(endTransparencyLayer(Cur))
    /\ lastOp' = <<"endTransparencyLayer">>

Op_scale(sx, sy) ==
    /\ InRange(scale(Cur, sx, sy).cg.ctm)
    /\ Becomes(scale(Cur, sx, sy))
    /\ lastOp' = <<"scale", sx, sy>>

Op_rotate(quarters) ==
    /\ InRange(rotate(Cur, quarters).cg.ctm)
    /\ Becomes(rotate(Cur, quarters))
    /\ lastOp' = <<"rotate", quarters>>

Op_translate(x, y) ==
    /\ InRange(translate(Cur, x, y).cg.ctm)
    /\ Becomes(translate(Cur, x, y))
    /\ lastOp' = <<"translate", x, y>>

Op_concatCTM(transform) ==
    /\ InRange(concatCTM(Cur, transform).cg.ctm)
    /\ Becomes(concatCTM(Cur, transform))
    /\ lastOp' = <<"concatCTM", transform>>

Op_setCTM(transform) ==
    /\ InRange(transform)
    /\ Becomes(setCTM(Cur, transform))
    /\ lastOp' = <<"setCTM", transform>>

Op_roundToDevicePixels ==
    /\ Becomes(roundToDevicePixels(Cur))
    /\ lastOp' = <<"roundToDevicePixels">>

Op_setStrokeThickness(thickness) ==
    /\ Becomes(setStrokeThickness(Cur, thickness))
    /\ lastOp' = <<"setStrokeThickness", thickness>>

(***************************************************************************)
(* drawLine.  A point is <<x, y>>.  The corner width and the pattern width *)
(* of a dashed line come from helpers of the base class; the build is for  *)
(* the iOS family or not.                                                  *)
(***************************************************************************)
\* drawLine() that does not test the length of the line
drawLine_ignoringStrokeWidth(c, point1, point2, cornerWidth, patternWidth, iosFamily) ==
    IF c.state.strokeStyle = "NoStroke" THEN c
    ELSE LET by == "drawLine"
             thickness == c.state.strokeThickness
             isVerticalLine == point1[1] + thickness = point2[1]
             strokeWidth == IF isVerticalLine THEN point2[2] - point1[2]
                            ELSE point2[1] - point1[1]
             strokeStyle == c.state.strokeStyle
             drawsDashedLine == strokeStyle \in {"DottedStroke", "DashedStroke"}
             corners ==
                 LET c1 == CGContextSaveGState(c, by)
                     c2 == setCGFillColor(c1, by, c.state.strokeBrush.color)
                     c3 == Issue(c2, by, "CGContextFillRect",
                                 IF isVerticalLine
                                 THEN <<point1[1], point1[2], thickness, cornerWidth>>
                                 ELSE <<point1[1], point1[2], cornerWidth, thickness>>)
                 IN  Issue(c3, by, "CGContextFillRect",
                           IF isVerticalLine
                           THEN <<point1[1], point2[2] - cornerWidth,
                                  thickness, cornerWidth>>
                           ELSE <<point2[1] - cornerWidth, point1[2],
                                  cornerWidth, thickness>>)
             dashed ==
                 Backend(corners, by, "CGContextSetLineDash",
                         <<"patternOffset", <<patternWidth, patternWidth>> >>,
                         CGContextSetLineDash(corners.cg, "patternOffset",
                                              <<patternWidth, patternWidth>>))
             c4 == IF drawsDashedLine THEN dashed ELSE c
             c5 == IF c.state.shouldAntialias
                   THEN Backend(c4, by, "CGContextSetShouldAntialias",
                                iosFamily /\ drawsDashedLine,
                                CGContextSetShouldAntialias(c4.cg,
                                    iosFamily /\ drawsDashedLine))
                   ELSE c4
             c6 == Issue(c5, by, "CGContextBeginPath", "")
             c7 == Issue(c6, by, "CGContextMoveToPoint", "p1")
             c8 == Issue(c7, by, "CGContextAddLineToPoint", "p2")
             c9 == Issue(c8, by, "CGContextStrokePath", "")
             c10 == IF c.state.shouldAntialias
                    THEN Backend(c9, by, "CGContextSetShouldAntialias", TRUE,
                                 CGContextSetShouldAntialias(c9.cg, TRUE))
                    ELSE c9
         IN  IF thickness = 0 THEN c
             ELSE IF drawsDashedLine
                       /\ strokeWidth - 2 * cornerWidth <= patternWidth + 1
             THEN CGContextRestoreGState(corners, by)
             ELSE IF drawsDashedLine THEN CGContextRestoreGState(c10, by)
             ELSE c10

drawLine(c, point1, point2, cornerWidth, patternWidth, iosFamily) ==
    IF c.state.strokeStyle = "NoStroke" THEN c
    ELSE LET by == "drawLine"
             thickness == c.state.strokeThickness
             isVerticalLine == point1[1] + thickness = point2[1]
             strokeWidth == IF isVerticalLine THEN point2[2] - point1[2]
                            ELSE point2[1] - point1[1]
             strokeStyle == c.state.strokeStyle
             drawsDashedLine == strokeStyle \in {"DottedStroke", "DashedStroke"}
             corners ==
                 LET c1 == CGContextSaveGState(c, by)
                     c2 == setCGFillColor(c1, by, c.state.strokeBrush.color)
                     c3 == Issue(c2, by, "CGContextFillRect",
                                 IF isVerticalLine
                                 THEN <<point1[1], point1[2], thickness, cornerWidth>>
                                 ELSE <<point1[1], point1[2], cornerWidth, thickness>>)
                 IN  Issue(c3, by, "CGContextFillRect",
                           IF isVerticalLine
                           THEN <<point1[1], point2[2] - cornerWidth,
                                  thickness, cornerWidth>>
                           ELSE <<point2[1] - cornerWidth, point1[2],
                                  cornerWidth, thickness>>)
             dashed ==
                 Backend(corners, by, "CGContextSetLineDash",
                         <<"patternOffset", <<patternWidth, patternWidth>> >>,
                         CGContextSetLineDash(corners.cg, "patternOffset",
                                              <<patternWidth, patternWidth>>))
             c4 == IF drawsDashedLine THEN dashed ELSE c
             c5 == IF c.state.shouldAntialias
                   THEN Backend(c4, by, "CGContextSetShouldAntialias",
                                iosFamily /\ drawsDashedLine,
                                CGContextSetShouldAntialias(c4.cg,
                                    iosFamily /\ drawsDashedLine))
                   ELSE c4
             c6 == Issue(c5, by, "CGContextBeginPath", "")
             c7 == Issue(c6, by, "CGContextMoveToPoint", "p1")
             c8 == Issue(c7, by, "CGContextAddLineToPoint", "p2")
             c9 == Issue(c8, by, "CGContextStrokePath", "")
             c10 == IF c.state.shouldAntialias
                    THEN Backend(c9, by, "CGContextSetShouldAntialias", TRUE,
                                 CGContextSetShouldAntialias(c9.cg, TRUE))
                    ELSE c9
         IN  IF thickness = 0 \/ strokeWidth = 0 THEN c
             ELSE IF drawsDashedLine
                       /\ strokeWidth - 2 * cornerWidth <= patternWidth + 1
             THEN CGContextRestoreGState(corners, by)
             ELSE IF drawsDashedLine THEN CGContextRestoreGState(c10, by)
             ELSE c10

(***************************************************************************)
(* Clipping to an image buffer.  An image buffer yields a native image or  *)
(* none.                                                                   *)
(***************************************************************************)
maxY(rect) == rect[2] + rect[4]

CGContextClipToMask(g, rect, mask) ==
    [g EXCEPT !.clip = Append(@, <<"mask", rect, mask>>)]

\* clipToImageBuffer() that does not flip back
clipToImageBuffer_withoutFlipBack(c, imageBuffer, destRect) ==
    IF ~imageBuffer.nativeImage THEN c
    ELSE LET by == "clipToImageBuffer"
             bounds == <<0, 0, destRect[3], destRect[4]>>
             c1 == Backend(c, by, "CGContextTranslateCTM",
                           <<destRect[1], maxY(destRect)>>,
                           CGContextTranslateCTM(c.cg, destRect[1], maxY(destRect)))
             c2 == Backend(c1, by, "CGContextScaleCTM", <<1, -1>>,
                           CGContextScaleCTM(c1.cg, 1, -1))
             c3 == Backend(c2, by, "CGContextClipToRect", bounds,
                           CGContextClipToRect(c2.cg, bounds))
         IN  Backend(c3, by, "CGContextClipToMask", bounds,
                     CGContextClipToMask(c3.cg, bounds, "platformImage"))

clipToImageBuffer(c, imageBuffer, destRect) ==
    IF ~imageBuffer.nativeImage THEN c
    ELSE LET by == "clipToImageBuffer"
             bounds == <<0, 0, destRect[3], destRect[4]>>
             c1 == Backend(c, by, "CGContextTranslateCTM",
                           <<destRect[1], maxY(destRect)>>,
                           CGContextTranslateCTM(c.cg, destRect[1], maxY(destRect)))
             c2 == Backend(c1, by, "CGContextScaleCTM", <<1, -1>>,
                           CGContextScaleCTM(c1.cg, 1, -1))
             c3 == Backend(c2, by, "CGContextClipToRect", bounds,
                           CGContextClipToRect(c2.cg, bounds))
             c4 == Backend(c3, by, "CGContextClipToMask", bounds,
                           CGContextClipToMask(c3.cg, bounds, "platformImage"))
             c5 == Backend(c4, by, "CGContextScaleCTM", <<1, -1>>,
                           CGContextScaleCTM(c4.cg, 1, -1))
         IN  Backend(c5, by, "CGContextTranslateCTM",
                     <<-destRect[1], -maxY(destRect)>>,
                     CGContextTranslateCTM(c5.cg, -destRect[1], -maxY(destRect)))

(***************************************************************************)
(* Filling and stroking rectangles.                                        *)
(***************************************************************************)
\* canUseShadowBlur() on every kind of surface
canUseShadowBlur_ignoringRenderingMode(c) ==
    hasBlurredDropShadow(c.state) /\ ~c.state.shadowsIgnoreTransforms

canUseShadowBlur(c) ==
    /\ renderingMode(c) = "Unaccelerated"
    /\ hasBlurredDropShadow(c.state)
    /\ ~c.state.shadowsIgnoreTransforms

\* if (drawOwnShadow): the backend state is pushed by the CGContextStateSaver
\* constructed right before, then the shadow style is cleared and the shadow
\* is drawn by ShadowBlur.
drawOwnShadow(c, by, rect) ==
    IF ~canUseShadowBlur(c) THEN c
    ELSE LET c1 == CGContextSaveGState(c, by)
             c2 == clearCGDropShadow(c1, by)
         IN  Issue(c2, by, "ShadowBlur::drawRectShadow", rect)

\* fillRect(rect, gradient, ...) that paints into the context under a shadow too
fillRectWithGradient_paintingDirectly(c, rect, gradientSpaceTransform, requiresClipToRect) ==
    LET c1 == CGContextSaveGState(c, "fillRect")
        c2 == IF requiresClipToRect
              THEN Backend(c1, "fillRect", "CGContextClipToRect", rect,
                           CGContextClipToRect(c1.cg, rect))
              ELSE c1
        c3 == Backend(c2, "fillRect", "CGContextConcatCTM", "",
                      CGContextConcatCTM(c2.cg, gradientSpaceTransform))
        c4 == paintInContext(c3, "fillRect")
    IN  CGContextRestoreGState(c4, "fillRect")

\* fillRect(const FloatRect&, Gradient&, const AffineTransform&, RequiresClipToRect)
fillRectWithGradient(c, rect, gradientSpaceTransform, requiresClipToRect) ==
    LET c1 == CGContextSaveGState(c, "fillRect")
    IN  IF hasDropShadow(c.state)
        THEN LET l1 == Issue(c1, "fillRect", "CGLayerCreateWithContext", "")
                 l2 == Issue(l1, "fillRect", "CGContextScaleCTM@layer", "")
                 l3 == Issue(l2, "fillRect", "CGContextTranslateCTM@layer", "")
                 l4 == Issue(l3, "fillRect", "CGContextAddRect@layer", rect)
                 l5 == Issue(l4, "fillRect", "CGContextClip@layer", "")
                 l6 == Issue(l5, "fillRect", "CGContextConcatCTM@layer", "")
                 l7 == Issue(l6, "fillRect", "Gradient::paint@layer", "")
                 l8 == Issue(l7, "fillRect", "CGContextDrawLayerInRect", rect)
             IN  CGContextRestoreGState(l8, "fillRect")
        ELSE LET c2 == IF requiresClipToRect
                       THEN Backend(c1, "fillRect", "CGContextClipToRect", rect,
                                    CGContextClipToRect(c1.cg, rect))
                       ELSE c1
                 c3 == Backend(c2, "fillRect", "CGContextConcatCTM", "",
                               CGContextConcatCTM(c2.cg, gradientSpaceTransform))
                 c4 == paintInContext(c3, "fillRect")
             IN  CGContextRestoreGState(c4, "fillRect")

\* fillRect(rect) that never draws the shadow itself
fillRect_withoutOwnShadow(c, rect, requiresClipToRect, patternOK) ==
    IF c.state.fillBrush.gradient
    THEN fillRectWithGradient(c, rect, c.state.fillBrush.gradientSpaceTransform,
                              requiresClipToRect)
    ELSE Issue(applyFillPattern(c, patternOK), "fillRect", "CGContextFillRect", rect)

\* fillRect(const FloatRect&, RequiresClipToRect)
fillRect(c, rect, requiresClipToRect, patternOK) ==
    IF c.state.fillBrush.gradient
    THEN fillRectWithGradient(c, rect, c.state.fillBrush.gradientSpaceTransform,
                              requiresClipToRect)
    ELSE LET c1 == applyFillPattern(c, patternOK)
             c2 == drawOwnShadow(c1, "fillRect", rect)
             c3 == Issue(c2, "fillRect", "CGContextFillRect", rect)
         IN  IF canUseShadowBlur(c1) THEN CGContextRestoreGState(c3, "fillRect")
             ELSE c3

\* fillRect(const FloatRect&, const Color&)
fillRectWithColor(c, rect, color) ==
    LET oldFillColor == c.state.fillBrush.color
        c1 == IF oldFillColor # color THEN setCGFillColor(c, "fillRect", color)
              ELSE c
        c2 == drawOwnShadow(c1, "fillRect", rect)
        c3 == Issue(c2, "fillRect", "CGContextFillRect", rect)
        c4 == IF canUseShadowBlur(c1) THEN CGContextRestoreGState(c3, "fillRect")
              ELSE c3
    IN  IF oldFillColor # color THEN setCGFillColor(c4, "fillRect", oldFillColor)
        ELSE c4

\* A rounded rect is a rect with the radii of its four corners, in the order
\* topLeft, topRight, bottomLeft, bottomRight.
fillRoundedRectImpl(c, rect, color, patternOK) ==
    LET oldFillColor == c.state.fillBrush.color
        c1 == IF oldFillColor # color
              THEN setCGFillColor(c, "fillRoundedRectImpl", color)
              ELSE c
        c2 == drawOwnShadow(c1, "fillRoundedRectImpl", rect)
        r == rect.rect
        radii == rect.radii
        equalWidths == /\ radii[1][1] = radii[2][1]
                       /\ radii[2][1] = radii[3][1]
                       /\ radii[3][1] = radii[4][1]
        equalHeights == /\ radii[1][2] = radii[3][2]
                        /\ radii[3][2] = radii[2][2]
                        /\ radii[2][2] = radii[4][2]
        hasCustomFill == c.state.fillBrush.gradient \/ c.state.fillBrush.pattern
        c3 == IF /\ ~hasCustomFill /\ equalWidths /\ equalHeights
                 /\ radii[1][1] * 2 = r[3] /\ radii[1][2] * 2 = r[4]
              THEN Issue(c2, "fillRoundedRectImpl", "CGContextFillEllipseInRect", r)
              ELSE fillPath(c2, "shape", patternOK)
        c4 == IF canUseShadowBlur(c1)
              THEN CGContextRestoreGState(c3, "fillRoundedRectImpl")
              ELSE c3
    IN  IF oldFillColor # color
        THEN setCGFillColor(c4, "fillRoundedRectImpl", oldFillColor)
        ELSE c4

\* drawRect(rect, borderThickness): the rect is filled, and the border is
\* simulated by four rects filled in the stroke color.
drawRect(c, rect, borderThickness) ==
    LET c1 == Issue(c, "drawRect", "CGContextFillRect", rect)
        oldFillColor == c.state.fillBrush.color
        strokeColor == c.state.strokeBrush.color
        c2 == IF oldFillColor # strokeColor
              THEN setCGFillColor(c1, "drawRect", strokeColor)
              ELSE c1
        c3 == Issue(c2, "drawRect", "CGContextFillRects", borderThickness)
    IN  IF c.state.strokeStyle = "NoStroke" THEN c1
        ELSE IF oldFillColor # strokeColor
        THEN setCGFillColor(c3, "drawRect", oldFillColor)
        ELSE c3

\* drawLinesForText: rects and color are the results of
\* computeRectsAndStrokeColorForLinesForText; rects is the number of rects.
drawLinesForText(c, rects, color) ==
    LET changeFillColor == c.state.fillBrush.color # color
        c1 == IF changeFillColor
              THEN setCGFillColor(c, "drawLinesForText", color)
              ELSE c
        c2 == Issue(c1, "drawLinesForText", "CGContextFillRects", rects)
    IN  IF rects = 0 THEN c
        ELSE IF changeFillColor
        THEN setCGFillColor(c2, "drawLinesForText", c.state.fillBrush.color)
        ELSE c2

\* fillRectWithRoundedHole that leaves the state of its own shadow pushed
fillRectWithRoundedHole_withoutRestore(c, rect, roundedHoleRect, color, patternOK) ==
    LET oldFillRule == c.state.fillRule
        oldFillColor == c.state.fillBrush.color
        c1 == setFillRule(c, "EvenOdd")
        c2 == setFillBrush(c1, SolidBrush(color))
        c3 == IF canUseShadowBlur(c2)
              THEN Issue(clearCGDropShadow(
                             CGContextSaveGState(c2, "fillRectWithRoundedHole"),
                             "fillRectWithRoundedHole"),
                         "fillRectWithRoundedHole", "ShadowBlur::drawInsetShadow",
                         roundedHoleRect.rect)
              ELSE c2
        c4 == fillPath(c3, "shape", patternOK)
        c5 == setFillRule(c4, oldFillRule)
    IN  setFillBrush(c5, SolidBrush(oldFillColor))

\* fillRectWithRoundedHole(rect, roundedHoleRect, color): setFillColor(color)
\* makes the fill brush the solid color, and setFillColor(oldFillColor) at
\* the end makes it the color of the brush the method found.
fillRectWithRoundedHole(c, rect, roundedHoleRect, color, patternOK) ==
    LET oldFillRule == c.state.fillRule
        oldFillColor == c.state.fillBrush.color
        c1 == setFillRule(c, "EvenOdd")
        c2 == setFillBrush(c1, SolidBrush(color))
        c3 == IF canUseShadowBlur(c2)
              THEN Issue(clearCGDropShadow(
                             CGContextSaveGState(c2, "fillRectWithRoundedHole"),
                             "fillRectWithRoundedHole"),
                         "fillRectWithRoundedHole", "ShadowBlur::drawInsetShadow",
                         roundedHoleRect.rect)
              ELSE c2
        c4 == fillPath(c3, "shape", patternOK)
        c5 == IF canUseShadowBlur(c2)
              THEN CGContextRestoreGState(c4, "fillRectWithRoundedHole")
              ELSE c4
        c6 == setFillRule(c5, oldFillRule)
    IN  setFillBrush(c6, SolidBrush(oldFillColor))

\* strokeRect(const FloatRect&, float lineWidth)
strokeRect(c, rect, lineWidth, patternOK) ==
    IF c.state.strokeBrush.gradient
    THEN IF hasDropShadow(c.state)
         THEN LET l1 == Issue(c, "strokeRect", "CGLayerCreateWithContext", "")
                  l2 == Issue(l1, "strokeRect", "CGContextSetLineWidth@layer", lineWidth)
                  l3 == Issue(l2, "strokeRect", "CGContextScaleCTM@layer", "")
                  l4 == Issue(l3, "strokeRect", "CGContextTranslateCTM@layer", "")
                  l5 == Issue(l4, "strokeRect", "CGContextAddRect@layer", rect)
                  l6 == Issue(l5, "strokeRect",
                              "CGContextReplacePathWithStrokedPath@layer", "")
                  l7 == Issue(l6, "strokeRect", "CGContextClip@layer", "")
                  l8 == Issue(l7, "strokeRect", "CGContextConcatCTM@layer", "")
                  l9 == Issue(l8, "strokeRect", "Gradient::paint@layer", "")
              IN  Issue(l9, "strokeRect", "CGContextDrawLayerInRect", rect)
         ELSE LET c1 == CGContextSaveGState(c, "strokeRect")
                  c2 == setStrokeThickness(c1, lineWidth)
                  c3 == Issue(c2, "strokeRect", "CGContextAddRect", rect)
                  c4 == Issue(c3, "strokeRect",
                              "CGContextReplacePathWithStrokedPath", "")
                  c5 == Backend(c4, "strokeRect", "CGContextClip", "",
                                CGContextClip(c4.cg, rect))
                  c6 == Backend(c5, "strokeRect", "CGContextConcatCTM", "",
                                CGContextConcatCTM(c5.cg,
                                    c.state.strokeBrush.gradientSpaceTransform))
                  c7 == paintInContext(c6, "strokeRect")
              IN  CGContextRestoreGState(c7, "strokeRect")
    ELSE LET c1 == applyStrokePattern(c, patternOK)
             c2 == CGContextSaveGState(c1, "strokeRect")
             c3 == setStrokeThickness(c2, lineWidth)
             c4 == Issue(c3, "strokeRect", "CGContextAddRect", rect)
             c5 == Issue(c4, "strokeRect", "CGContextStrokePath", "")
         IN  CGContextRestoreGState(c5, "strokeRect")

\* The number of calls of backend function fn in a call log.
RECURSIVE CountCalls(_, _)
CountCalls(log, fn) ==
    IF log = << >> THEN 0
    ELSE (IF log[1][2] = fn THEN 1 ELSE 0) + CountCalls(Tail(log), fn)

(***************************************************************************)
(* Spec: the state stack with transparency layers, a state mutation and a  *)
(* transform mutation, on a bitmap context.                                *)
(***************************************************************************)
Init == InitContext("kCGContextTypeBitmap", "Unknown")

Next ==
    \/ Op_save(MaxDepth)
    \/ Op_restore
    \/ Op_beginTransparencyLayer(0)
    \/ Op_endTransparencyLayer
    \/ Op_translate(1, 0)
    \/ Op_scale(1, -1)
    \/ Op_setStrokeThickness(1)
    \/ Op_roundToDevicePixels

Spec == Init /\ [][Next]_vars

\* C1: a step that pops the state stack (the restore() matching a save(),
\* whatever state and transform mutations and nested pairs came between)
\* leaves the drawing state and the backend graphics state equal to the
\* ones observed when that save() was called.
C1_SaveRestoreRoundTrip ==
    [][ Len(m_stack') < Len(m_stack)
          => /\ m_state' = Last(snapshots)[1]
             /\ cg' = Last(snapshots)[2] ]_vars

\* a restore() of the inner pair of two nested pairs, after the state and
\* the transform were changed both between the saves and after them
C1_Witness ==
    /\ lastOp = <<"restore">>
    /\ Len(m_stack) = 1
    /\ calls # << >>
    /\ m_state.strokeThickness = 1
    /\ m_stack[1].strokeThickness = 0
    /\ cg.ctm # cgStack[1].ctm
    /\ cg.ctm # CGAffineTransformIdentity

\* C2: restore() on an empty state stack changes neither the drawing state
\* nor the stack nor the backend state nor the cached flag and issues no
\* backend call; and no step issues more backend restores than there are
\* saved backend states, so neither stack underflows.
C2_RestoreOnEmptyStackIsNoOp ==
    [][ /\ (lastOp' = <<"restore">> /\ m_stack = << >>)
            => /\ m_state' = m_state
               /\ m_stack' = << >>
               /\ cg' = cg
               /\ cgStack' = cgStack
               /\ cgLayers' = cgLayers
               /\ m_userToDeviceTransformKnownToBeIdentity'
                    = m_userToDeviceTransformKnownToBeIdentity
               /\ calls' = << >>
        /\ CountCalls(calls', "CGContextRestoreGState") <= Len(cgStack) ]_vars

\* restore() was called on an empty stack, in a state that is not the
\* initial one
C2_Witness ==
    /\ lastOp = <<"restore">>
    /\ m_stack = << >>
    /\ calls = << >>
    /\ m_state.strokeThickness = 1
    /\ cg.ctm # CGAffineTransformIdentity
    /\ m_userToDeviceTransformKnownToBeIdentity = FALSE

\* C3: the number of outstanding backend state-saves equals the depth of
\* the state stack in every state; save() pushes one state and issues one
\* backend save; restore() issues one backend restore when it pops a state
\* and none when it does not.
C3_BackendSavesMatchStackDepth ==
    /\ [](Len(cgStack) = Len(m_stack))
    /\ [][ /\ lastOp' = <<"save">>
               => /\ Len(m_stack') = Len(m_stack) + 1
                  /\ CountCalls(calls', "CGContextSaveGState") = 1
           /\ lastOp' = <<"restore">>
               => CountCalls(calls', "CGContextRestoreGState")
                    = (IF Len(m_stack') < Len(m_stack) THEN 1 ELSE 0) ]_vars

\* a general save and a transparency-layer save are both outstanding
C3_Witness ==
    /\ Len(m_stack) = 2
    /\ Len(cgStack) = 2
    /\ cgLayers = 1

(***************************************************************************)
(* SpecTransform: every transform operation, save/restore and the          *)
(* identity-transform cache.                                               *)
(***************************************************************************)
NextTransform ==
    \/ Op_save(MaxTransformDepth)
    \/ Op_restore
    \/ Op_scale(1, -1)
    \/ Op_rotate(2)
    \/ Op_translate(1, 0)
    \/ Op_concatCTM(<<-1, 0, 0, 1, 0, 0>>)
    \/ Op_setCTM(CGAffineTransformIdentity)
    \/ Op_roundToDevicePixels

SpecTransform == Init /\ [][NextTransform]_vars

TransformOps == {"scale", "rotate", "translate", "concatCTM", "setCTM"}

\* roundToDevicePixels reads the backend transform exactly when the flag is
\* false and leaves the flag true exactly when it was true or the transform
\* read is the identity.
RoundToDevicePixelsMemoizes ==
    lastOp' = <<"roundToDevicePixels">>
      => /\ m_userToDeviceTransformKnownToBeIdentity'
              = (m_userToDeviceTransformKnownToBeIdentity
                   \/ CGContextGetUserSpaceToDeviceSpaceTransform(cg)
                        = CGAffineTransformIdentity)
         /\ CountCalls(calls', "CGContextGetUserSpaceToDeviceSpaceTransform")
              = (IF m_userToDeviceTransformKnownToBeIdentity THEN 0 ELSE 1)
         /\ cg' = cg

\* C4 as stated: every transform operation and every restore() leaves the
\* flag false, and roundToDevicePixels memoizes.
C4_Original ==
    [][ /\ lastOp'[1] \in TransformOps \cup {"restore"}
            => ~m_userToDeviceTransformKnownToBeIdentity'
        /\ RoundToDevicePixelsMemoizes ]_vars

\* C4 amended: every transform operation, and every restore() that pops a
\* state, leaves the flag false (a restore() on an empty stack leaves the
\* flag as it was); roundToDevicePixels memoizes.
C4_TransformOpsInvalidateCache ==
    [][ /\ lastOp'[1] \in TransformOps
            => ~m_userToDeviceTransformKnownToBeIdentity'
        /\ (lastOp' = <<"restore">> /\ m_stack # << >>)
            => ~m_userToDeviceTransformKnownToBeIdentity'
        /\ (lastOp' = <<"restore">> /\ m_stack = << >>)
            => m_userToDeviceTransformKnownToBeIdentity'
                 = m_userToDeviceTransformKnownToBeIdentity
        /\ RoundToDevicePixelsMemoizes ]_vars

\* a query answered from the cache: the flag is true and the backend was
\* not read
C4_Witness ==
    /\ lastOp = <<"roundToDevicePixels">>
    /\ m_userToDeviceTransformKnownToBeIdentity
    /\ calls = << >>
    /\ cg.ctm = CGAffineTransformIdentity


(***************************************************************************)
(* SpecPath: the brushes, the fill rule, the stroke style, the drop shadow *)
(* and the path drawing methods.                                           *)
(***************************************************************************)
Op_setFillBrush(brush) ==
    /\ Becomes(setFillBrush(Cur, brush))
    /\ lastOp' = <<"setFillBrush">>

Op_setStrokeBrush(brush) ==
    /\ Becomes(setStrokeBrush(Cur, brush))
    /\ lastOp' = <<"setStrokeBrush">>

Op_setStrokeStyle(style) ==
    /\ Becomes(setStrokeStyle(Cur, style))
    /\ lastOp' = <<"setStrokeStyle">>

Op_setFillRule(rule) ==
    /\ Becomes(setFillRule(Cur, rule))
    /\ lastOp' = <<"setFillRule">>

Op_setDropShadow(shadow) ==
    /\ Becomes(setDropShadow(Cur, shadow))
    /\ lastOp' = <<"setDropShadow">>

Op_drawPath(path, patternOK) ==
    /\ Becomes(drawPath(Cur, path, patternOK))
    /\ lastOp' = <<"drawPath", path, patternOK>>

Op_fillPath(path, patternOK) ==
    /\ Becomes(fillPath(Cur, path, patternOK))
    /\ lastOp' = <<"fillPath", path, patternOK>>

Op_strokePath(path, patternOK) ==
    /\ Becomes(strokePath(Cur, path, patternOK))
    /\ lastOp' = <<"strokePath", path, patternOK>>

Brushes == {SolidBrush("black"), SolidBrush("transparent"), GradientBrush,
            PatternBrush}

SomeShadow == [present |-> TRUE, offset |-> <<1, 1>>, radius |-> 1,
               color |-> "black", opacity |-> 1]

NextPath ==
    \/ \E brush \in Brushes : Op_setFillBrush(brush)
    \/ \E brush \in Brushes : Op_setStrokeBrush(brush)
    \/ \E style \in {"NoStroke", "SolidStroke"} : Op_setStrokeStyle(style)
    \/ \E rule \in {"NonZero", "EvenOdd"} : Op_setFillRule(rule)
    \/ \E shadow \in {NoShadow, SomeShadow} : Op_setDropShadow(shadow)
    \/ \E path \in Paths, patternOK \in BOOLEAN : Op_drawPath(path, patternOK)
    \/ \E path \in Paths, patternOK \in BOOLEAN : Op_fillPath(path, patternOK)
    \/ \E path \in Paths, patternOK \in BOOLEAN : Op_strokePath(path, patternOK)

SpecPath == Init /\ [][NextPath]_vars

\* The modes of the backend path-drawing calls of a call log, in order.
RECURSIVE DrawModes(_)
DrawModes(log) ==
    IF log = << >> THEN << >>
    ELSE (IF log[1][2] = "CGContextDrawPathDirect" THEN <<log[1][3]>> ELSE << >>)
         \o DrawModes(Tail(log))

DrawingFns ==
    {"CGContextDrawPathDirect", "CGContextStrokeLineSegments",
     "Gradient::paint", "Gradient::paint@layer", "CGContextDrawLayerInRect"}

\* The calls of a call log that draw.
DrawingCalls(log) == SelectSeq(log, LAMBDA call : call[2] \in DrawingFns)

FillActive == isVisible(m_state.fillBrush)

StrokeActive == isVisible(m_state.strokeBrush) \/ m_state.strokeStyle # "NoStroke"

NoGradientBrush == ~m_state.fillBrush.gradient /\ ~m_state.strokeBrush.gradient

\* C5: after drawPath on a non-empty path with no gradient brush, the
\* drawing calls issued are the single path-drawing call the table gives
\* for (fill active, stroke active, fill rule), and none at all when
\* neither fill nor stroke is active.
C5_DrawingModeTable ==
    (lastOp[1] = "drawPath" /\ lastOp[2] # "empty" /\ NoGradientBrush)
      => /\ DrawingCalls(calls) = SelectSeq(calls,
                LAMBDA call : call[2] = "CGContextDrawPathDirect")
         /\ DrawModes(calls) =
              ( CASE FillActive /\ StrokeActive /\ m_state.fillRule = "EvenOdd"
                       -> <<"kCGPathEOFillStroke">>
                  [] FillActive /\ StrokeActive /\ m_state.fillRule = "NonZero"
                       -> <<"kCGPathFillStroke">>
                  [] FillActive /\ ~StrokeActive /\ m_state.fillRule = "EvenOdd"
                       -> <<"kCGPathEOFill">>
                  [] FillActive /\ ~StrokeActive /\ m_state.fillRule = "NonZero"
                       -> <<"kCGPathFill">>
                  [] ~FillActive /\ StrokeActive -> <<"kCGPathStroke">>
                  [] OTHER -> << >> )
         /\ (~FillActive /\ ~StrokeActive) => calls = << >>

\* the stroke-only row under the even-odd rule
C5_Witness ==
    /\ lastOp[1] = "drawPath"
    /\ lastOp[2] = "shape"
    /\ NoGradientBrush
    /\ ~FillActive
    /\ StrokeActive
    /\ m_state.fillRule = "EvenOdd"
    /\ DrawModes(calls) = <<"kCGPathStroke">>

FillPassCallers == {"fillPath", "applyFillPattern"}

StrokePassCallers == {"strokePath", "applyStrokePattern"}

\* C6: after drawPath on a non-empty path with a gradient fill or stroke
\* brush, the call log is the calls of a fill pass followed by the calls
\* of a stroke pass: every call is issued by fillPath or strokePath (or the
\* pattern application they do), none by drawPath itself, no fill-pass call
\* follows a stroke-pass call, both passes are there, and no combined
\* fill+stroke draw call is issued.
C6_GradientTwoPasses ==
    (lastOp[1] = "drawPath" /\ lastOp[2] # "empty" /\ ~NoGradientBrush)
      => /\ \A i \in 1..Len(calls) :
               calls[i][1] \in FillPassCallers \cup StrokePassCallers
         /\ \A i, j \in 1..Len(calls) :
               (calls[i][1] \in StrokePassCallers
                  /\ calls[j][1] \in FillPassCallers) => j < i
         /\ \E i \in 1..Len(calls) : calls[i][1] = "fillPath"
         /\ \E i \in 1..Len(calls) : calls[i][1] = "strokePath"
         /\ \A i \in 1..Len(calls) :
               calls[i][2] = "CGContextDrawPathDirect"
                 => calls[i][3] \notin {"kCGPathFillStroke", "kCGPathEOFillStroke"}

\* a gradient fill painted in the fill pass, then a solid stroke drawn in
\* the stroke pass
C6_Witness ==
    /\ lastOp[1] = "drawPath"
    /\ lastOp[2] = "shape"
    /\ m_state.fillBrush.gradient
    /\ ~m_state.strokeBrush.gradient
    /\ \E i, j \in 1..Len(calls) :
          /\ i < j
          /\ calls[i][1] = "fillPath"
          /\ calls[i][2] = "Gradient::paint"
          /\ calls[j] = Call("strokePath", "CGContextDrawPathDirect", "kCGPathStroke")


(***************************************************************************)
(* SpecImage: drawNativeImage under the transforms, the composite modes    *)
(* and the interpolation qualities that steer it.                          *)
(***************************************************************************)
Op_setCompositeMode(op, blendMode) ==
    /\ Becomes(setCompositeMode(Cur, op, blendMode))
    /\ lastOp' = <<"setCompositeMode", op, blendMode>>

Op_setImageInterpolationQuality(quality) ==
    /\ Becomes(setImageInterpolationQuality(Cur, quality))
    /\ lastOp' = <<"setImageInterpolationQuality", quality>>

Op_drawNativeImage(nativeImage, destRect, srcRect, options) ==
    /\ IntegralScale(destRect, srcRect)
    /\ Becomes(drawNativeImage(Cur, nativeImage, destRect, srcRect, options))
    /\ lastOp' = <<"drawNativeImage", nativeImage, destRect, srcRect, options>>

\* A sub-image is only tiled from a fully decoded image (the assertion of
\* line 479).
Op_drawPattern(nativeImage, destRect, tileRect, patternTransform, phase, spacing, options, patternOK) ==
    /\ Len(tileImages) < MaxTileImages
    /\ nativeImage.platformImage
    /\ <<tileRect[3], tileRect[4]>> # nativeImage.size
         => nativeImage.height = nativeImage.size[2]
    /\ Becomes(drawPattern(Cur, nativeImage, destRect, tileRect,
                           patternTransform, phase, spacing, options, patternOK))
    /\ lastOp' = <<"drawPattern", nativeImage, destRect, tileRect,
                   patternTransform, phase, spacing, options, patternOK>>

\* The backend deallocates a pattern and invokes its release callback
\* (lines 441-444), which hands the image to a task for the main thread.
Op_patternReleaseCallback(i) ==
    /\ i \in 1..Len(tileImages)
    /\ tileImages[i].owner = "pattern"
    /\ tileImages' = [tileImages EXCEPT ![i].owner = "mainThreadTask"]
    /\ calls' = << >>
    /\ lastOp' = <<"patternReleaseCallback", i>>
    /\ UNCHANGED <<contextType, m_renderingMode, m_state, m_stack,
                   m_userToDeviceTransformKnownToBeIdentity, cg, cgStack,
                   cgLayers, snapshots>>

\* The main thread runs the task: the lambda's adopted reference is
\* released when the lambda is destroyed.
Op_mainThreadTask(i) ==
    /\ i \in 1..Len(tileImages)
    /\ tileImages[i].owner = "mainThreadTask"
    /\ tileImages' = [tileImages EXCEPT ![i].owner = "none",
                                        ![i].releases = @ + 1]
    /\ calls' = << >>
    /\ lastOp' = <<"mainThreadTask", i>>
    /\ UNCHANGED <<contextType, m_renderingMode, m_state, m_stack,
                   m_userToDeviceTransformKnownToBeIdentity, cg, cgStack,
                   cgLayers, snapshots>>

\* A fully decoded 2x2 image, the same image with one row decoded, a 2x1
\* image and an image without platform image.
NativeImages ==
    { [platformImage |-> TRUE, size |-> <<2, 2>>, width |-> 2, height |-> 2],
      [platformImage |-> TRUE, size |-> <<2, 2>>, width |-> 2, height |-> 1],
      [platformImage |-> TRUE, size |-> <<2, 1>>, width |-> 2, height |-> 1],
      [platformImage |-> FALSE, size |-> <<2, 2>>, width |-> 0, height |-> 0] }

ImagePaintingOptions ==
    { [compositeOperator |-> "SourceOver", blendMode |-> "Normal",
       orientation |-> "None"],
      [compositeOperator |-> "Copy", blendMode |-> "Normal",
       orientation |-> "OriginBottomRight"],
      [compositeOperator |-> "SourceOver", blendMode |-> "Multiply",
       orientation |-> "OriginRightTop"] }

DestRects == {<<0, 0, 2, 2>>, <<5, 4, -4, -2>>}

SrcRects ==
    {<<0, 0, 2, 2>>, <<1, 1, 1, 1>>, <<1, 1, 2, 2>>, <<2, 2, 1, 1>>, <<1, 0, 1, 1>>}

TileRects == {<<0, 0, 2, 2>>, <<0, 0, 1, 1>>}

PatternTransforms ==
    {CGAffineTransformIdentity, <<2, 0, 0, 1, 0, 0>>, <<0, 0, 0, 0, 0, 0>>}

Spacings == {<<0, 0>>, <<1, 0>>, <<0, 1>>}

NextImage ==
    \/ Op_rotate(1)
    \/ Op_setCompositeMode("SourceOver", "Normal")
    \/ Op_setCompositeMode("SourceOver", "Multiply")
    \/ \E quality \in {"Default", "DoNotInterpolate"} :
          Op_setImageInterpolationQuality(quality)
    \/ \E nativeImage \in NativeImages, destRect \in DestRects,
          srcRect \in SrcRects, options \in ImagePaintingOptions :
          Op_drawNativeImage(nativeImage, destRect, srcRect, options)

SpecImage == Init /\ [][NextImage]_vars

(***************************************************************************)
(* SpecShadow: drop shadows of all shapes installed under scaled and       *)
(* rotated transforms, with and without shadowsIgnoreTransforms.           *)
(***************************************************************************)
Op_setShadow(shadow) ==
    /\ Becomes(setDropShadow(Cur, shadow))
    /\ lastOp' = <<"setDropShadow", shadow>>

Op_setShadowsIgnoreTransforms(shadowsIgnoreTransforms) ==
    /\ Becomes(setShadowsIgnoreTransforms(Cur, shadowsIgnoreTransforms))
    /\ lastOp' = <<"setShadowsIgnoreTransforms", shadowsIgnoreTransforms>>

Op_scaleUnderShadow(sx, sy) ==
    /\ \A i \in 1..6 : Abs(scale(Cur, sx, sy).cg.ctm[i]) <= MaxShadowScale
    /\ Becomes(scale(Cur, sx, sy))
    /\ lastOp' = <<"scale", sx, sy>>

\* Colors of a shadow: visible, fully transparent, and the invalid color
\* (Color() with no value).
ShadowColors == {"black", "transparent", "invalid"}

ShadowRadii == {0, 1, 600, 1000, 1001, 5000}

DropShadows ==
    {NoShadow} \cup
    [present : {TRUE}, offset : {<<0, 0>>, <<1, 2>>}, radius : ShadowRadii,
     color : ShadowColors, opacity : {1}]

NextShadow ==
    \/ \E shadow \in DropShadows : Op_setShadow(shadow)
    \/ \E b \in BOOLEAN : Op_setShadowsIgnoreTransforms(b)
    \/ Op_scaleUnderShadow(2, 2)
    \/ Op_rotate(1)

SpecShadow == Init /\ [][NextShadow]_vars

(***************************************************************************)
(* SpecDash: setLineDash with dash arrays of zero and positive length and  *)
(* offsets of both signs.                                                  *)
(***************************************************************************)
Op_setLineDash(dashes, dashOffset) ==
    /\ Becomes(setLineDash(Cur, dashes, dashOffset))
    /\ lastOp' = <<"setLineDash", dashes, dashOffset>>

DashArrays == {<< >>, <<0, 0>>, <<3>>, <<2, 2>>, <<1, 2>>, <<1, 1, 1, 2>>}

NextDash ==
    \E dashes \in DashArrays, dashOffset \in (-MaxDashOffset)..MaxDashOffset :
        Op_setLineDash(dashes, dashOffset)

SpecDash == Init /\ [][NextDash]_vars

(***************************************************************************)
(* SpecFill: rectangles and paths filled and stroked with colors,          *)
(* gradients and patterns, with and without a drop shadow, on bitmap,      *)
(* IOSurface and PDF contexts.                                             *)
(***************************************************************************)
Op_fillRect(rect, requiresClipToRect, patternOK) ==
    /\ Becomes(fillRect(Cur, rect, requiresClipToRect, patternOK))
    /\ lastOp' = <<"fillRect", "brush", rect, requiresClipToRect, patternOK>>

Op_fillRectWithColor(rect, color) ==
    /\ Becomes(fillRectWithColor(Cur, rect, color))
    /\ lastOp' = <<"fillRect", "color", rect, color>>

Op_fillRoundedRectImpl(rect, color, patternOK) ==
    /\ Becomes(fillRoundedRectImpl(Cur, rect, color, patternOK))
    /\ lastOp' = <<"fillRoundedRectImpl", rect, color, patternOK>>

Op_strokeRect(rect, lineWidth, patternOK) ==
    /\ Becomes(strokeRect(Cur, rect, lineWidth, patternOK))
    /\ lastOp' = <<"strokeRect", rect, lineWidth, patternOK>>

\* A shadow without blur and a shadow of a fully transparent color.
SharpShadow == [present |-> TRUE, offset |-> <<1, 1>>, radius |-> 0,
                color |-> "black", opacity |-> 1]

TransparentShadow == [present |-> TRUE, offset |-> <<1, 1>>, radius |-> 1,
                      color |-> "transparent", opacity |-> 1]

\* An ellipse (every radius half the size) and a rect with one round corner.
RoundedRects ==
    { [rect |-> <<0, 0, 2, 2>>,
       radii |-> << <<1, 1>>, <<1, 1>>, <<1, 1>>, <<1, 1>> >>],
      [rect |-> <<0, 0, 2, 2>>,
       radii |-> << <<1, 1>>, <<0, 0>>, <<0, 0>>, <<0, 0>> >>] }

InitFill ==
    \E type \in {"kCGContextTypeBitmap", "kCGContextTypeIOSurface",
                 "kCGContextTypePDF"} : InitContext(type, "Unknown")

NextFill ==
    \/ \E brush \in {SolidBrush("black"), GradientBrush, PatternBrush} :
          Op_setFillBrush(brush)
    \/ \E brush \in {SolidBrush("black"), GradientBrush} : Op_setStrokeBrush(brush)
    \/ \E shadow \in {NoShadow, SomeShadow, SharpShadow, TransparentShadow} :
          Op_setShadow(shadow)
    \/ \E b \in BOOLEAN : Op_setShadowsIgnoreTransforms(b)
    \/ \E requiresClipToRect \in BOOLEAN, patternOK \in BOOLEAN :
          Op_fillRect(<<0, 0, 2, 2>>, requiresClipToRect, patternOK)
    \/ \E color \in {"black", "red"} : Op_fillRectWithColor(<<0, 0, 2, 2>>, color)
    \/ \E rect \in RoundedRects, color \in {"black", "red"} :
          Op_fillRoundedRectImpl(rect, color, TRUE)
    \/ \E path \in {"empty", "shape"} : Op_fillPath(path, TRUE)
    \/ \E path \in {"empty", "shape"} : Op_strokePath(path, TRUE)
    \/ Op_strokeRect(<<0, 0, 2, 2>>, 1, TRUE)

SpecFill == InitFill /\ [][NextFill]_vars

(***************************************************************************)
(* SpecSync: fields of the drawing state changed without synchronisation   *)
(* (as when the changes of another state are merged in), and               *)
(* didUpdateState.                                                         *)
(***************************************************************************)
\* The fields, each with the change flag that records it and the values it
\* takes.
StateProperties ==
    { <<"fillBrush", "FillBrush", {SolidBrush("black"), SolidBrush("red")}>>,
      <<"strokeBrush", "StrokeBrush", {SolidBrush("black"), SolidBrush("red")}>>,
      <<"strokeThickness", "StrokeThickness", {0, 2}>>,
      <<"compositeOperator", "CompositeMode", {"SourceOver", "Copy"}>>,
      <<"dropShadow", "DropShadow", {NoShadow, SomeShadow}>>,
      <<"style", "Style", {NoShadow, SomeShadow}>>,
      <<"alpha", "Alpha", {1, 0}>>,
      <<"imageInterpolationQuality", "ImageInterpolationQuality",
        {"Default", "DoNotInterpolate"}>>,
      <<"textDrawingMode", "TextDrawingMode", {{"Fill"}, {"Stroke"}}>>,
      <<"shouldAntialias", "ShouldAntialias", BOOLEAN>>,
      <<"shouldSmoothFonts", "ShouldSmoothFonts", BOOLEAN>>,
      <<"fillRule", "FillRule", {"NonZero", "EvenOdd"}>>,
      <<"shadowsIgnoreTransforms", "ShadowsIgnoreTransforms", BOOLEAN>> }

Op_setProperty(field, value, change) ==
    /\ m_state[field] # value
    /\ Cardinality(m_state.changes \cup {change}) <= MaxDirty
    /\ Cardinality({p \in StateProperties :
                       setProperty(Cur, field, value, change).state[p[1]]
                           # InitialState[p[1]]}) <= MaxDirty
    /\ Becomes(setProperty(Cur, field, value, change))
    /\ lastOp' = <<"setProperty", field, value, change>>

Op_didUpdateState ==
    /\ Becomes(didUpdateState(Cur))
    /\ lastOp' = <<"didUpdateState">>

NextSync ==
    \/ \E p \in StateProperties : \E value \in p[3] :
          Op_setProperty(p[1], value, p[2])
    \/ Op_didUpdateState

SpecSync == Init /\ [][NextSync]_vars

(***************************************************************************)
(* SpecLine: drawLine with every stroke style, thicknesses 0, 1 and 2 and  *)
(* lines of zero and nonzero length.                                       *)
(***************************************************************************)
Op_drawLine(point1, point2, cornerWidth, patternWidth, iosFamily) ==
    /\ Becomes(drawLine(Cur, point1, point2, cornerWidth, patternWidth, iosFamily))
    /\ lastOp' = <<"drawLine", point1, point2>>

StrokeStyles == {"NoStroke", "SolidStroke", "DottedStroke", "DashedStroke"}

\* End points for the start point <<0, 0>>: vertical lines of thickness 1
\* and 2 with and without extent, horizontal lines, and a line along the y
\* axis, which is not vertical for a nonzero thickness.
LineEnds ==
    {<<1, 5>>, <<2, 5>>, <<1, 0>>, <<2, 0>>, <<5, 0>>, <<0, 5>>, <<0, 0>>}

NextLine ==
    \/ \E style \in StrokeStyles : Op_setStrokeStyle(style)
    \/ \E thickness \in 0..2 : Op_setStrokeThickness(thickness)
    \/ \E point2 \in LineEnds, cornerWidth \in {1, 2}, patternWidth \in {1, 3},
          iosFamily \in BOOLEAN :
          Op_drawLine(<<0, 0>>, point2, cornerWidth, patternWidth, iosFamily)

SpecLine == Init /\ [][NextLine]_vars

(***************************************************************************)
(* SpecBalance: every drawing operation that pushes the backend state,     *)
(* under the brushes, shadows and stroke styles that select its paths.     *)
(***************************************************************************)
DecodedImage ==
    [platformImage |-> TRUE, size |-> <<2, 2>>, width |-> 2, height |-> 2]

CopyOptions ==
    [compositeOperator |-> "Copy", blendMode |-> "Normal", orientation |-> "None"]

Op_fillRectWithRoundedHole(rect, roundedHoleRect, color, patternOK) ==
    /\ Becomes(fillRectWithRoundedHole(Cur, rect, roundedHoleRect, color, patternOK))
    /\ lastOp' = <<"fillRectWithRoundedHole", rect, roundedHoleRect, color>>

NextBalance ==
    \/ \E brush \in {SolidBrush("black"), GradientBrush, PatternBrush} :
          Op_setFillBrush(brush)
    \/ \E brush \in {SolidBrush("black"), GradientBrush} : Op_setStrokeBrush(brush)
    \/ \E shadow \in {NoShadow, SomeShadow} : Op_setShadow(shadow)
    \/ \E style \in {"SolidStroke", "DashedStroke"} : Op_setStrokeStyle(style)
    \/ \E srcRect \in {<<0, 0, 2, 2>>, <<1, 1, 2, 2>>} :
          Op_drawNativeImage(DecodedImage, <<0, 0, 2, 2>>, srcRect, CopyOptions)
    \/ \E spacing \in {<<0, 0>>, <<1, 0>>}, patternOK \in BOOLEAN :
          Op_drawPattern(DecodedImage, <<0, 0, 2, 2>>, <<0, 0, 2, 2>>,
                         CGAffineTransformIdentity, <<0, 0>>, spacing,
                         CopyOptions, patternOK)
    \/ \E point2 \in {<<5, 0>>, <<2, 0>>}, patternWidth \in {1, 3} :
          Op_drawLine(<<0, 0>>, point2, 1, patternWidth, FALSE)
    \/ Op_fillPath("shape", TRUE)
    \/ Op_strokePath("shape", TRUE)
    \/ \E patternOK \in BOOLEAN : Op_fillRect(<<0, 0, 2, 2>>, TRUE, patternOK)
    \/ Op_fillRectWithColor(<<0, 0, 2, 2>>, "red")
    \/ \E rect \in RoundedRects : Op_fillRoundedRectImpl(rect, "red", TRUE)
    \/ \E hole \in RoundedRects :
          Op_fillRectWithRoundedHole(<<0, 0, 4, 4>>, hole, "red", TRUE)
    \/ Op_strokeRect(<<0, 0, 2, 2>>, 1, TRUE)

SpecBalance == Init /\ [][NextBalance]_vars

(***************************************************************************)
(* SpecColor: the operations that fill in a color of their own, under      *)
(* solid, gradient and pattern fill brushes, with and without a blurred    *)
(* shadow, with colors equal to and different from the fill color.         *)
(***************************************************************************)
Op_drawRect(rect, borderThickness) ==
    /\ Becomes(drawRect(Cur, rect, borderThickness))
    /\ lastOp' = <<"drawRect", rect, borderThickness>>

Op_drawLinesForText(rects, color) ==
    /\ Becomes(drawLinesForText(Cur, rects, color))
    /\ lastOp' = <<"drawLinesForText", rects, color>>

NextColor ==
    \/ \E brush \in {SolidBrush("black"), SolidBrush("red"), GradientBrush,
                     PatternBrush} : Op_setFillBrush(brush)
    \/ \E brush \in {SolidBrush("black"), SolidBrush("red")} :
          Op_setStrokeBrush(brush)
    \/ \E style \in {"NoStroke", "SolidStroke", "DashedStroke"} :
          Op_setStrokeStyle(style)
    \/ Op_setStrokeThickness(1)
    \/ \E shadow \in {NoShadow, SomeShadow} : Op_setShadow(shadow)
    \/ \E color \in {"black", "red"} : Op_fillRectWithColor(<<0, 0, 2, 2>>, color)
    \/ \E rect \in RoundedRects, color \in {"black", "red"},
          patternOK \in BOOLEAN : Op_fillRoundedRectImpl(rect, color, patternOK)
    \/ Op_drawRect(<<0, 0, 2, 2>>, 1)
    \/ \E point2 \in {<<5, 0>>, <<2, 0>>}, patternWidth \in {1, 3} :
          Op_drawLine(<<0, 0>>, point2, 1, patternWidth, FALSE)
    \/ \E rects \in 0..1, color \in {"black", "red"} :
          Op_drawLinesForText(rects, color)

SpecColor == Init /\ [][NextColor]_vars

(***************************************************************************)
(* SpecLayer: save/restore and begin/endTransparencyLayer called in        *)
(* matched, properly nested pairs: a restore() answers a save() and an     *)
(* endTransparencyLayer() a beginTransparencyLayer().  Between them the    *)
(* alpha and the transform change and rectangles are rounded.              *)
(***************************************************************************)
Op_setAlpha(alpha) ==
    /\ Becomes(setAlpha(Cur, alpha))
    /\ lastOp' = <<"setAlpha", alpha>>

Op_saveNested ==
    /\ Len(m_stack) < MaxNesting
    /\ Becomes(save(Cur))
    /\ lastOp' = <<"save">>

Op_restoreNested ==
    /\ snapshots # << >>
    /\ Last(snapshots)[3] = "SaveRestore"
    /\ Becomes(restore(Cur))
    /\ lastOp' = <<"restore">>

Op_beginTransparencyLayerNested(opacity) ==
    /\ Len(m_stack) < MaxNesting
    /\ Becomes(beginTransparencyLayer(Cur, opacity))
    /\ lastOp' = <<"beginTransparencyLayer", opacity>>

Op_endTransparencyLayerNested ==
    /\ snapshots # << >>
    /\ Last(snapshots)[3] = "TransparencyLayer"
    /\ Becomes(endTransparencyLayer(Cur))
    /\ lastOp' = <<"endTransparencyLayer">>

NextLayer ==
    \/ Op_saveNested
    \/ Op_restoreNested
    \/ \E opacity \in {0, 1} : Op_beginTransparencyLayerNested(opacity)
    \/ Op_endTransparencyLayerNested
    \/ \E alpha \in {0, 1} : Op_setAlpha(alpha)
    \/ Op_scale(1, -1)
    \/ Op_roundToDevicePixels

SpecLayer == Init /\ [][NextLayer]_vars

(***************************************************************************)
(* SpecStroke: strokeRect with every kind of stroke brush, with and        *)
(* without shadow, at line widths equal to and different from the stroke   *)
(* thickness of the context.                                               *)
(***************************************************************************)
NextStroke ==
    \/ \E thickness \in 0..2 : Op_setStrokeThickness(thickness)
    \/ \E brush \in {SolidBrush("black"), GradientBrush, PatternBrush} :
          Op_setStrokeBrush(brush)
    \/ \E shadow \in {NoShadow, SomeShadow} : Op_setShadow(shadow)
    \/ \E lineWidth \in 1..2, patternOK \in BOOLEAN :
          Op_strokeRect(<<0, 0, 2, 2>>, lineWidth, patternOK)

SpecStroke == Init /\ [][NextStroke]_vars

(***************************************************************************)
(* SpecPattern: drawPattern, the release callback of the backend pattern   *)
(* and the task it queues on the main thread.                              *)
(***************************************************************************)
NextPattern ==
    \/ \E nativeImage \in NativeImages, tileRect \in TileRects,
          patternTransform \in PatternTransforms, spacing \in Spacings,
          patternOK \in BOOLEAN :
          Op_drawPattern(nativeImage, <<0, 0, 2, 2>>, tileRect,
                         patternTransform, <<0, 0>>, spacing, CopyOptions,
                         patternOK)
    \/ \E i \in 1..MaxTileImages : Op_patternReleaseCallback(i)
    \/ \E i \in 1..MaxTileImages : Op_mainThreadTask(i)

SpecPattern == Init /\ [][NextPattern]_vars

\* A backend function called by the last method.
Called(fn) == \E i \in 1..Len(calls) : calls[i][2] = fn

\* C7 as stated: (after drawPattern with an invertible pattern transform)
\* the tiled-image call is used exactly when the tile rectangle has the
\* size of the image and the spacing is zero, and the callback pattern is
\* created otherwise.
C7_Original ==
    (lastOp[1] = "drawPattern" /\ isInvertible(lastOp[5]))
      => LET tileIsImage == <<lastOp[4][3], lastOp[4][4]>> = lastOp[2].size
             noSpacing == lastOp[7] = <<0, 0>>
         IN  /\ Called("CGContextDrawTiledImage") <=> (tileIsImage /\ noSpacing)
             /\ Called("CGPatternCreate") <=> ~(tileIsImage /\ noSpacing)

\* C7: after drawPattern with an invertible pattern transform, the
\* tiled-image call is used exactly when the platform image has the pixel
\* width and height of the image's size (it is fully decoded) and both
\* spacing components are zero, whatever the tile rectangle is; the
\* callback pattern is created exactly in the other cases.
C7_TiledImageIffFullyDecodedAndNoSpacing ==
    (lastOp[1] = "drawPattern" /\ isInvertible(lastOp[5]))
      => LET fullyDecoded == /\ lastOp[2].width = lastOp[2].size[1]
                             /\ lastOp[2].height = lastOp[2].size[2]
             noSpacing == lastOp[7] = <<0, 0>>
         IN  /\ Called("CGContextDrawTiledImage") <=> (fullyDecoded /\ noSpacing)
             /\ Called("CGPatternCreate") <=> ~(fullyDecoded /\ noSpacing)

\* a 1x1 tile of the fully decoded 2x2 image without spacing is drawn by
\* the tiled-image call, from the cropped sub-image
C7_Witness ==
    /\ lastOp[1] = "drawPattern"
    /\ isInvertible(lastOp[5])
    /\ lastOp[4] = <<0, 0, 1, 1>>
    /\ lastOp[7] = <<0, 0>>
    /\ \E i \in 1..Len(calls) :
          /\ calls[i][2] = "CGContextDrawTiledImage"
          /\ calls[i][3][2] = <<"subimage", <<0, 0, 1, 1>>>>

\* The positions of the calls of a function in a call log.
Positions(log, fn) == {i \in 1..Len(log) : log[i][2] = fn}

\* C10: every drawNativeImage step leaves the backend's transform, blend
\* mode and saved-state stack as they were.  A step that draws pushes a
\* backend state exactly when it clips to the destination rect: the push
\* comes right before the clip and the matching pop is the last call; a
\* step that draws without clipping pushes and pops nothing and ends by
\* setting the transform and then the blend mode.
C10_DrawNativeImageRestoresTransformAndBlendMode ==
    [][ lastOp'[1] = "drawNativeImage"
          => /\ cg'.ctm = cg.ctm
             /\ cg'.blendMode = cg.blendMode
             /\ cgStack' = cgStack
             /\ Positions(calls', "CGContextSaveGState") # {}
                  <=> Positions(calls', "CGContextClipToRect") # {}
             /\ Positions(calls', "CGContextDrawImage") # {}
                  => IF Positions(calls', "CGContextClipToRect") # {}
                     THEN /\ Positions(calls', "CGContextSaveGState") = {1}
                          /\ Positions(calls', "CGContextClipToRect") = {2}
                          /\ Positions(calls', "CGContextRestoreGState")
                               = {Len(calls')}
                          /\ Positions(calls', "CGContextSetCTM") = {}
                     ELSE /\ Positions(calls', "CGContextRestoreGState") = {}
                          /\ Positions(calls', "CGContextSetCTM")
                               = {Len(calls') - 1}
                          /\ Len(calls') \in Positions(calls', "CGContextSetBlendMode")
      ]_vars

\* an image drawn with the Copy operator and without a clip on a rotated
\* context whose composite mode is Multiply: the transform and the blend
\* mode are back
C10_Witness ==
    /\ lastOp[1] = "drawNativeImage"
    /\ lastOp[5].compositeOperator = "Copy"
    /\ m_state.blendMode = "Multiply"
    /\ Called("CGContextDrawImage")
    /\ ~Called("CGContextClipToRect")
    /\ cg.ctm = MakeRotation(1)
    /\ cg.blendMode = "kCGBlendModeMultiply"

(***************************************************************************)
(* SpecBackend: contexts of every type, clipOut under rotations, and the   *)
(* operations of a PDF context.                                            *)
(***************************************************************************)
MaxClips == 1

ContextTypes ==
    {"kCGContextTypeBitmap", "kCGContextTypeIOSurface", "kCGContextTypePDF",
     "kCGContextTypeUnknown"}

CGContextSources == {"Unknown", "CGContextFromCALayer"}

InitAnyContext ==
    \E type \in ContextTypes, source \in CGContextSources :
        InitContext(type, source)

Op_clipOut(rect) ==
    /\ Len(cg.clip) < MaxClips
    /\ Becomes(clipOut(Cur, rect))
    /\ lastOp' = <<"clipOut", rect>>

Op_beginPage(pageRect) ==
    /\ Becomes(beginPage(Cur, pageRect))
    /\ lastOp' = <<"beginPage", pageRect>>

Op_endPage ==
    /\ Becomes(endPage(Cur))
    /\ lastOp' = <<"endPage">>

Op_setURLForRect(urlRef, destRect) ==
    /\ Becomes(setURLForRect(Cur, urlRef, destRect))
    /\ lastOp' = <<"setURLForRect", urlRef, destRect>>

Op_setDestinationForRect(name, destRect) ==
    /\ Becomes(setDestinationForRect(Cur, name, destRect))
    /\ lastOp' = <<"setDestinationForRect", name, destRect>>

Op_addDestinationAtPoint(name, position) ==
    /\ Becomes(addDestinationAtPoint(Cur, name, position))
    /\ lastOp' = <<"addDestinationAtPoint", name, position>>

NextBackend ==
    \/ Op_rotate(1)
    \/ Op_scale(1, -1)
    \/ Op_clipOut(<<0, 0, 1, 1>>)
    \/ Op_beginPage(<<0, 0, 2, 2>>)
    \/ Op_endPage
    \/ \E urlRef \in BOOLEAN : Op_setURLForRect(urlRef, <<0, 0, 1, 1>>)
    \/ Op_setDestinationForRect("top", <<0, 0, 1, 1>>)
    \/ Op_addDestinationAtPoint("top", <<0, 0>>)

SpecBackend == InitAnyContext /\ [][NextBackend]_vars

(***************************************************************************)
(* SpecMask: clipToImageBuffer under translated, flipped and rotated       *)
(* transforms.                                                             *)
(***************************************************************************)
Op_clipToImageBuffer(imageBuffer, destRect) ==
    /\ Len(cg.clip) < 2 * MaxClips
    /\ Becomes(clipToImageBuffer(Cur, imageBuffer, destRect))
    /\ lastOp' = <<"clipToImageBuffer", imageBuffer, destRect>>

ImageBuffers == [nativeImage : BOOLEAN]

MaskRects == {<<0, 0, 2, 2>>, <<1, 2, 3, 1>>, <<-1, 1, 2, -2>>}

NextMask ==
    \/ Op_rotate(1)
    \/ Op_scale(1, -1)
    \/ Op_translate(1, 0)
    \/ Op_translate(0, -1)
    \/ \E imageBuffer \in ImageBuffers, destRect \in MaskRects :
          Op_clipToImageBuffer(imageBuffer, destRect)

SpecMask == Init /\ [][NextMask]_vars

(***************************************************************************)
(* SpecCache: roundToDevicePixels between the operations that change the   *)
(* backend transform, through the context's transform methods and          *)
(* directly.                                                               *)
(***************************************************************************)
Op_applyDeviceScaleFactor(deviceScaleFactor) ==
    /\ \A i \in 1..6 :
          Abs(applyDeviceScaleFactor(Cur, deviceScaleFactor).cg.ctm[i])
              <= MaxShadowScale
    /\ \A i \in 1..6 :
          Abs(applyDeviceScaleFactor(Cur, deviceScaleFactor).cg.baseCTM[i])
              <= MaxShadowScale
    /\ Becomes(applyDeviceScaleFactor(Cur, deviceScaleFactor))
    /\ lastOp' = <<"applyDeviceScaleFactor", deviceScaleFactor>>

NextCache ==
    \/ Op_roundToDevicePixels
    \/ Op_save(1)
    \/ Op_restore
    \/ Op_scale(1, -1)
    \/ Op_setCTM(CGAffineTransformIdentity)
    \/ Op_applyDeviceScaleFactor(2)
    \/ \E brush \in {SolidBrush("black"), GradientBrush} : Op_setFillBrush(brush)
    \/ Op_setStrokeBrush(GradientBrush)
    \/ Op_fillPath("shape", TRUE)
    \/ Op_strokePath("shape", TRUE)
    \/ Op_fillRect(<<0, 0, 2, 2>>, TRUE, TRUE)
    \/ Op_strokeRect(<<0, 0, 2, 2>>, 0, TRUE)
    \/ \E srcRect \in {<<0, 0, 2, 2>>, <<1, 1, 1, 1>>} :
          Op_drawNativeImage(DecodedImage, <<0, 0, 2, 2>>, srcRect, CopyOptions)
    \/ \E spacing \in {<<0, 0>>, <<1, 0>>} :
          Op_drawPattern(DecodedImage, <<0, 0, 2, 2>>, <<0, 0, 2, 2>>,
                         CGAffineTransformIdentity, <<0, 0>>, spacing,
                         CopyOptions, TRUE)
    \/ Op_clipToImageBuffer([nativeImage |-> TRUE], <<1, 2, 3, 1>>)

SpecCache == Init /\ [][NextCache]_vars

\* The "everything" rectangle of the last clipOut(rect).
ClipOutRegion == Last(cg.clip)[2][1]

NoRotationOrShear == cg.ctm[2] = 0 /\ cg.ctm[3] = 0

\* C8 as stated: after clipOut(rect) the "everything" region is the
\* infinite rectangle exactly when the context is not a PDF context and
\* the transform has b = 0 and c = 0, and the clip bounding box otherwise.
C8_Original ==
    lastOp[1] = "clipOut"
      => /\ ClipOutRegion = "CGRectInfinite"
              <=> (contextType # "kCGContextTypePDF" /\ NoRotationOrShear)
         /\ ClipOutRegion \in {"CGRectInfinite", "CGContextGetClipBoundingBox"}

\* C8: after clipOut(rect) the "everything" region is the infinite
\* rectangle exactly when the context is not a PDF context and either its
\* rendering mode is Unaccelerated or the transform has b = 0 and c = 0;
\* it is the clip bounding box otherwise, that is on a PDF context and on
\* an accelerated context whose transform rotates or shears.
C8_InfiniteRectUnlessPDFOrAcceleratedRotation ==
    lastOp[1] = "clipOut"
      => /\ ClipOutRegion = "CGRectInfinite"
              <=> /\ contextType # "kCGContextTypePDF"
                  /\ (m_renderingMode = "Unaccelerated" \/ NoRotationOrShear)
         /\ ClipOutRegion \in {"CGRectInfinite", "CGContextGetClipBoundingBox"}

\* clipOut on a rotated bitmap context uses the infinite rectangle
C8_Witness ==
    /\ lastOp[1] = "clipOut"
    /\ contextType = "kCGContextTypeBitmap"
    /\ ~NoRotationOrShear
    /\ ClipOutRegion = "CGRectInfinite"

PaginatedOnlyOps ==
    {"beginPage", "endPage", "setURLForRect", "setDestinationForRect",
     "addDestinationAtPoint"}

PDFContextFns ==
    {"CGPDFContextBeginPage", "CGPDFContextEndPage", "CGPDFContextSetURLForRect",
     "CGPDFContextSetDestinationForRect", "CGPDFContextAddDestinationAtPoint"}

\* C9: every step of a paginated-only operation on a context that is not
\* a PDF context issues no PDF-context backend call and leaves the state
\* of the context and of the backend unchanged.
C9_PaginatedOnlyOpsAreNoOpsOffPDF ==
    [][ (contextType # "kCGContextTypePDF" /\ lastOp'[1] \in PaginatedOnlyOps)
          => /\ \A i \in 1..Len(calls') : calls'[i][2] \notin PDFContextFns
             /\ UNCHANGED <<m_state, m_stack, cg, cgStack, cgLayers,
                            m_userToDeviceTransformKnownToBeIdentity>>
      ]_vars

(***************************************************************************)
(* The arguments of the last drawNativeImage, read back from lastOp.       *)
(***************************************************************************)
DrewNativeImage == lastOp[1] = "drawNativeImage"

LastImageRect ==
    LET size == IF lastOp[5].orientation = "OriginRightTop"
                THEN <<lastOp[2].size[2], lastOp[2].size[1]>>
                ELSE lastOp[2].size
    IN  <<0, 0, size[1], size[2]>>

LastDestRect == normalizeRect(lastOp[3])

LastSrcRect == normalizeRect(lastOp[4])

\* The image handed to CGContextDrawImage is a sub-image.
SubimageDrawn ==
    \E i \in 1..Len(calls) :
        calls[i][2] = "CGContextDrawImage" /\ calls[i][3][2][1] = "subimage"

\* C11: after a drawNativeImage that draws, a sub-image is drawn exactly
\* when the source rect differs from the image bounds, the backend's
\* interpolation quality is not none, and the transform rotates or shears
\* or the scales from source to device differ in x and y or the scale
\* exceeds 1.
C11_SubimageDecision ==
    (DrewNativeImage /\ Called("CGContextDrawImage"))
      => LET xs == LastDestRect[3] * Abs(cg.ctm[1])
             ys == LastDestRect[4] * Abs(cg.ctm[4])
         IN  SubimageDrawn
               <=> /\ LastSrcRect # LastImageRect
                   /\ cg.interpolationQuality # "kCGInterpolationNone"
                   /\ \/ cg.ctm[2] # 0
                      \/ cg.ctm[3] # 0
                      \/ xs * LastSrcRect[4] # ys * LastSrcRect[3]
                      \/ xs > LastSrcRect[3]

\* quality none and a scale of 2 in both directions: the whole image is
\* drawn
C11_Witness ==
    /\ DrewNativeImage
    /\ Called("CGContextDrawImage")
    /\ cg.interpolationQuality = "kCGInterpolationNone"
    /\ cg.ctm = CGAffineTransformIdentity
    /\ LastSrcRect = <<1, 1, 1, 1>>
    /\ LastDestRect = <<0, 0, 2, 2>>
    /\ ~SubimageDrawn

\* C12: a drawNativeImage step whose image has no platform image, or
\* whose normalized source rect does not intersect the image bounds (of
\* the transposed size when the orientation swaps width and height),
\* issues no backend call and changes nothing of the context or the
\* backend.
C12_NoIntersectionIsNoOp ==
    [][ (lastOp'[1] = "drawNativeImage"
           /\ \/ ~lastOp'[2].platformImage
              \/ LET size == IF lastOp'[5].orientation = "OriginRightTop"
                             THEN <<lastOp'[2].size[2], lastOp'[2].size[1]>>
                             ELSE lastOp'[2].size
                     src == normalizeRect(lastOp'[4])
                 IN  \/ src[3] <= 0 \/ src[4] <= 0
                     \/ src[1] >= size[1] \/ src[2] >= size[2]
                     \/ src[1] + src[3] <= 0 \/ src[2] + src[4] <= 0)
          => /\ calls' = << >>
             /\ UNCHANGED <<m_state, m_stack, cg, cgStack, cgLayers,
                            m_userToDeviceTransformKnownToBeIdentity>>
      ]_vars

\* the source rect <<1, 0, 1, 1>> lies inside the 2x1 image's bounds only
\* when they are not transposed: with the transposing orientation nothing
\* is drawn
C12_Witness ==
    /\ DrewNativeImage
    /\ lastOp[2].platformImage
    /\ lastOp[2].size = <<2, 1>>
    /\ lastOp[4] = <<1, 0, 1, 1>>
    /\ lastOp[5].orientation = "OriginRightTop"
    /\ calls = << >>

(***************************************************************************)
(* SpecBlend: every pair of compositing operator and blend mode, and one   *)
(* value outside each enumeration, set as the composite mode.              *)
(***************************************************************************)
NextBlend ==
    \E op \in CompositeOperators \cup {"Unrecognized"},
       blendMode \in BlendModes \cup {"Unrecognized"} :
        Op_setCompositeMode(op, blendMode)

SpecBlend == Init /\ [][NextBlend]_vars

\* The backend constant of the same name.
NamedConstant ==
    [ Clear |-> "kCGBlendModeClear", Copy |-> "kCGBlendModeCopy",
      SourceIn |-> "kCGBlendModeSourceIn", SourceOut |-> "kCGBlendModeSourceOut",
      SourceAtop |-> "kCGBlendModeSourceAtop",
      DestinationOver |-> "kCGBlendModeDestinationOver",
      DestinationIn |-> "kCGBlendModeDestinationIn",
      DestinationOut |-> "kCGBlendModeDestinationOut",
      DestinationAtop |-> "kCGBlendModeDestinationAtop",
      XOR |-> "kCGBlendModeXOR", PlusDarker |-> "kCGBlendModePlusDarker",
      PlusLighter |-> "kCGBlendModePlusLighter",
      Difference |-> "kCGBlendModeDifference",
      Normal |-> "kCGBlendModeNormal", Multiply |-> "kCGBlendModeMultiply",
      Screen |-> "kCGBlendModeScreen", Overlay |-> "kCGBlendModeOverlay",
      Darken |-> "kCGBlendModeDarken", Lighten |-> "kCGBlendModeLighten",
      ColorDodge |-> "kCGBlendModeColorDodge",
      ColorBurn |-> "kCGBlendModeColorBurn",
      HardLight |-> "kCGBlendModeHardLight",
      SoftLight |-> "kCGBlendModeSoftLight",
      Exclusion |-> "kCGBlendModeExclusion", Hue |-> "kCGBlendModeHue",
      Saturation |-> "kCGBlendModeSaturation", Color |-> "kCGBlendModeColor",
      Luminosity |-> "kCGBlendModeLuminosity" ]

\* C13: the backend blend mode of a context is the one selected from its
\* composite mode: under blend mode Normal, Normal for SourceOver and the
\* constant named like the operator for the 13 other operators, the 14
\* constants being pairwise different; under another blend mode the
\* constant named like the blend mode, whatever the operator; Normal for
\* a value outside the enumerations.
C13_BlendModeSelection ==
    /\ cg.blendMode =
         ( IF m_state.blendMode = "Normal"
           THEN IF m_state.compositeOperator = "SourceOver"
                THEN "kCGBlendModeNormal"
                ELSE IF m_state.compositeOperator \in CompositeOperators
                THEN NamedConstant[m_state.compositeOperator]
                ELSE "kCGBlendModeNormal"
           ELSE IF m_state.blendMode \in BlendModes
           THEN NamedConstant[m_state.blendMode]
           ELSE "kCGBlendModeNormal" )
    /\ Cardinality(CompositeOperators) = 14
    /\ Cardinality({selectCGBlendMode(op, "Normal") : op \in CompositeOperators})
         = 14
    /\ \A blendMode \in BlendModes \ {"Normal"} :
          Cardinality({selectCGBlendMode(op, blendMode) :
                         op \in CompositeOperators}) = 1

\* the operator Copy under blend mode Multiply selects Multiply
C13_Witness ==
    /\ lastOp = <<"setCompositeMode", "Copy", "Multiply">>
    /\ cg.blendMode = "kCGBlendModeMultiply"

\* C14: every retained tile image is released at most once and only by a
\* step of a main-thread task; at every moment an image not yet released
\* is held by a backend pattern or by a queued main-thread task that will
\* release it, and a released image is held by nobody.
C14_TileImageReleasedExactlyOnce ==
    [][ /\ \A i \in 1..Len(tileImages') :
              /\ tileImages'[i].releases <= 1
              /\ tileImages'[i].releases = 0
                   => tileImages'[i].owner \in {"pattern", "mainThreadTask"}
              /\ tileImages'[i].releases = 1 => tileImages'[i].owner = "none"
        /\ \A i \in 1..Len(tileImages) :
              tileImages'[i].releases # tileImages[i].releases
                => /\ lastOp' = <<"mainThreadTask", i>>
                   /\ tileImages[i].owner = "mainThreadTask"
      ]_vars

\* The last step was a setDropShadow that installed a shadow style.
InstalledShadow ==
    /\ lastOp[1] = "setDropShadow"
    /\ Len(lastOp) = 2
    /\ Called("CGContextSetStyle")
    /\ cg.style[1] = "shadow"

\* The blur radius of the installed shadow style.
InstalledBlurRadius == cg.style[3]

\* C15 as stated: with an identity transform, and with
\* shadowsIgnoreTransforms whatever the transform, the blur radius handed
\* to the backend equals the shadow's radius; it never exceeds 1000.
C15_Original ==
    InstalledShadow =>
        /\ (getUserToBaseCTM(cg) = CGAffineTransformIdentity
              => InstalledBlurRadius = lastOp[2].radius)
        /\ (m_state.shadowsIgnoreTransforms
              => InstalledBlurRadius = lastOp[2].radius)
        /\ InstalledBlurRadius <= 1000

\* C15: the blur radius handed to the backend is the smaller of 1000 and
\* the shadow's radius times a factor; the factor is 1 for an identity
\* transform and, whatever the transform, with shadowsIgnoreTransforms; it
\* is 2 under a uniform scale by 2 and 1 under a quarter turn.  So a radius
\* of 5000 gives 1000 in every case, with shadowsIgnoreTransforms too.
C15_ScaledBlurRadiusClamped ==
    InstalledShadow =>
        LET radius == lastOp[2].radius
            t == getUserToBaseCTM(cg)
            diagonal == t[2] = 0 /\ t[3] = 0
            turned == t[1] = 0 /\ t[4] = 0
        IN  /\ InstalledBlurRadius <= 1000
            /\ (t = CGAffineTransformIdentity \/ m_state.shadowsIgnoreTransforms)
                 => InstalledBlurRadius = Min(radius, 1000)
            /\ (~m_state.shadowsIgnoreTransforms /\ diagonal)
                 => InstalledBlurRadius = Min(radius * Min(Abs(t[1]), Abs(t[4])), 1000)
            /\ (~m_state.shadowsIgnoreTransforms /\ turned)
                 => InstalledBlurRadius = Min(radius * Min(Abs(t[2]), Abs(t[3])), 1000)

\* a radius of 5000 installed with shadowsIgnoreTransforms under a scale
C15_Witness ==
    /\ InstalledShadow
    /\ lastOp[2].radius = 5000
    /\ m_state.shadowsIgnoreTransforms
    /\ getUserToBaseCTM(cg)[1] \in {2, -2}
    /\ InstalledBlurRadius = 1000

\* The last step was a setDropShadow that changed the shadow of the state.
SetShadowStep ==
    /\ lastOp[1] = "setDropShadow"
    /\ Len(lastOp) = 2
    /\ calls # << >>

\* C16 as stated: the style is cleared exactly when the shadow is missing,
\* its color is missing or fully transparent, or offset and radius are both
\* zero; otherwise a shadow style is installed.
C16_Original ==
    SetShadowStep =>
        LET shadow == lastOp[2]
            degenerate == \/ ~shadow.present
                          \/ shadow.color \in {"invalid", "transparent"}
                          \/ (shadow.offset = <<0, 0>> /\ shadow.radius = 0)
        IN  /\ degenerate <=> cg.style = <<"none">>
            /\ ~degenerate <=> cg.style[1] = "shadow"

\* C16: the style is cleared exactly when the shadow is missing, its color
\* is the invalid color, or offset and radius are both zero; otherwise a
\* shadow style is installed, for a fully transparent color too.
C16_ClearsUnlessValidColorAndExtent ==
    SetShadowStep =>
        LET shadow == lastOp[2]
            degenerate == \/ ~shadow.present
                          \/ shadow.color = "invalid"
                          \/ (shadow.offset = <<0, 0>> /\ shadow.radius = 0)
        IN  /\ Called("CGContextSetStyle")
            /\ degenerate <=> cg.style = <<"none">>
            /\ ~degenerate <=> (cg.style[1] = "shadow" /\ cg.style[4] = shadow.color)

\* a fully transparent shadow with an offset is installed as a style
C16_Witness ==
    /\ SetShadowStep
    /\ lastOp[2].color = "transparent"
    /\ lastOp[2].offset # <<0, 0>>
    /\ cg.style[1] = "shadow"

\* The last step was setLineDash; the offset it handed to the backend.
SetLineDashStep == lastOp[1] = "setLineDash" /\ Called("CGContextSetLineDash")

PassedDashOffset == cg.lineDash[2]

\* C17 as stated: a negative offset with a dash array of positive length L
\* reaches the backend as a value of [0, L) congruent to it modulo L; a
\* non-negative offset reaches it unchanged.
C17_Original ==
    SetLineDashStep =>
        LET L == dashLength(lastOp[2])
            dashOffset == lastOp[3]
        IN  /\ (dashOffset < 0 /\ L > 0)
                 => /\ PassedDashOffset >= 0
                    /\ PassedDashOffset < L
                    /\ (PassedDashOffset - dashOffset) % L = 0
            /\ dashOffset >= 0 => PassedDashOffset = dashOffset

\* C17: a negative offset with a dash array of positive length L reaches
\* the backend as a value of (0, L] congruent to it modulo L: L itself, not
\* 0, for a negative multiple of L.  A non-negative offset reaches it
\* unchanged, and so does a negative one when L is zero.
C17_DashOffsetNormalized ==
    SetLineDashStep =>
        LET L == dashLength(lastOp[2])
            dashOffset == lastOp[3]
        IN  /\ cg.lineDash[3] = lastOp[2]
            /\ (dashOffset < 0 /\ L > 0)
                 => /\ PassedDashOffset > 0
                    /\ PassedDashOffset <= L
                    /\ (PassedDashOffset - dashOffset) % L = 0
            /\ (dashOffset >= 0 \/ L = 0) => PassedDashOffset = dashOffset

\* offset -4 with the dash array [2,2] reaches the backend as 4
C17_Witness ==
    /\ SetLineDashStep
    /\ lastOp[2] = <<2, 2>>
    /\ lastOp[3] = -4
    /\ PassedDashOffset = 4

\* The conditions under which the claims have the context draw the shadow
\* itself: an unaccelerated surface and a blurred drop shadow that does not
\* ignore transforms.
OwnShadowConfiguration ==
    /\ m_renderingMode = "Unaccelerated"
    /\ m_state.dropShadow.present
    /\ m_state.dropShadow.color = "black"
    /\ m_state.dropShadow.radius # 0
    /\ ~m_state.shadowsIgnoreTransforms

\* The position of the only call of fn in the log, 0 when it is not called
\* exactly once.
OnlyPosition(log, fn) ==
    IF Cardinality(Positions(log, fn)) = 1
    THEN CHOOSE i \in Positions(log, fn) : TRUE
    ELSE 0

BlurRoutineInvoked == Called("ShadowBlur::drawRectShadow")

\* C18: a fillRect(rect, color) step in the own-shadow configuration
\* pushes the backend state, clears the shadow style, draws the shadow
\* through the blur routine, fills the rect and pops the backend state, in
\* this order, setting no other style in between; in every other
\* configuration it calls neither the blur routine nor CGContextSetStyle.
\* In both cases the backend's style and stack are afterwards what they
\* were before.
C18_FillRectColorOwnShadowOrder ==
    [][ (lastOp'[1] = "fillRect" /\ lastOp'[2] = "color") =>
          /\ cg'.style = cg.style
          /\ cgStack' = cgStack
          /\ OnlyPosition(calls', "CGContextFillRect") > 0
          /\ IF OwnShadowConfiguration'
             THEN LET atSave  == OnlyPosition(calls', "CGContextSaveGState")
                      atClear == OnlyPosition(calls', "CGContextSetStyle")
                      atBlur  == OnlyPosition(calls', "ShadowBlur::drawRectShadow")
                      atFill  == OnlyPosition(calls', "CGContextFillRect")
                      atPop   == OnlyPosition(calls', "CGContextRestoreGState")
                  IN  /\ 0 < atSave /\ atSave < atClear /\ atClear < atBlur
                      /\ atBlur < atFill /\ atFill < atPop
                      /\ calls'[atClear][3] = "nullptr"
             ELSE /\ ~BlurRoutineInvoked'
                  /\ ~Called("CGContextSetStyle")'
      ]_vars

\* fillRect(rect, color) with another color than the fill color, in the
\* own-shadow configuration with the shadow style installed
C18_Witness ==
    /\ lastOp[1] = "fillRect" /\ lastOp[2] = "color"
    /\ lastOp[4] # m_state.fillBrush.color
    /\ OwnShadowConfiguration
    /\ cg.style[1] = "shadow"
    /\ BlurRoutineInvoked

\* The last step was fillRect(rect), fillRoundedRectImpl or fillPath of a
\* shape.
FillRectStep == lastOp[1] = "fillRect" /\ lastOp[2] = "brush"

FillRoundedRectStep == lastOp[1] = "fillRoundedRectImpl"

FillPathStep == lastOp[1] = "fillPath" /\ lastOp[2] # "empty"

RenderedThroughLayer ==
    Called("CGLayerCreateWithContext") /\ Called("CGContextDrawLayerInRect")

\* C19 as stated: with an active drop shadow and a gradient or pattern
\* fill, fillRect, fillRoundedRectImpl and fillPath render through an
\* offscreen layer and do not invoke the blur routine.
C19_Original ==
    ( /\ FillRectStep \/ FillRoundedRectStep \/ FillPathStep
      /\ hasDropShadow(m_state)
      /\ m_state.fillBrush.gradient \/ m_state.fillBrush.pattern )
    => (RenderedThroughLayer /\ ~BlurRoutineInvoked)

\* C19: with an active drop shadow, fillRect, fillRoundedRectImpl and
\* fillPath render through an offscreen layer exactly when the fill is a
\* gradient; a pattern fill never goes through a layer.  fillPath never
\* invokes the blur routine and fillRect does not with a gradient fill, but
\* fillRect with a pattern fill and fillRoundedRectImpl with a gradient or
\* pattern fill invoke it, as with a solid color, exactly in the own-shadow
\* configuration.
C19_BlurRoutineAndLayerUse ==
    /\ ( /\ FillRectStep \/ FillRoundedRectStep \/ FillPathStep
         /\ hasDropShadow(m_state) )
       => (RenderedThroughLayer <=> m_state.fillBrush.gradient)
    /\ FillPathStep => ~BlurRoutineInvoked
    /\ FillRectStep =>
         (BlurRoutineInvoked
            <=> (~m_state.fillBrush.gradient /\ OwnShadowConfiguration))
    /\ FillRoundedRectStep => (BlurRoutineInvoked <=> OwnShadowConfiguration)

\* fillRoundedRectImpl with a gradient fill in the own-shadow configuration:
\* the blur routine and the layer
C19_Witness ==
    /\ FillRoundedRectStep
    /\ m_state.fillBrush.gradient
    /\ OwnShadowConfiguration
    /\ BlurRoutineInvoked
    /\ RenderedThroughLayer

\* The last step filled (stroked) a shape with a gradient fill (stroke)
\* brush.
GradientFillStep ==
    (FillRectStep \/ FillPathStep) /\ m_state.fillBrush.gradient

GradientStrokeStep ==
    /\ \/ lastOp[1] = "strokeRect"
       \/ (lastOp[1] = "strokePath" /\ lastOp[2] # "empty")
    /\ m_state.strokeBrush.gradient

LayerFns ==
    {"CGLayerCreateWithContext", "CGContextDrawLayerInRect",
     "CGContextScaleCTM@layer", "CGContextTranslateCTM@layer",
     "CGContextAddRect@layer", "addToCGContextPath@layer",
     "CGContextClip@layer", "CGContextEOClip@layer",
     "CGContextConcatCTM@layer", "Gradient::paint@layer",
     "CGContextSetLineWidth@layer", "CGContextReplacePathWithStrokedPath@layer"}

\* C20: a gradient fill or stroke step under an active drop shadow creates
\* one layer, then clips the layer, then paints the gradient into the layer,
\* then draws the layer into the context with one call, and paints no
\* gradient into the context; without an active drop shadow it makes no
\* layer call and paints the gradient once into the context, after a push
\* and before the pop of the backend state.
C20_GradientThroughLayerUnderShadow ==
    (GradientFillStep \/ GradientStrokeStep) =>
        IF hasDropShadow(m_state)
        THEN LET atCreate == OnlyPosition(calls, "CGLayerCreateWithContext")
                 atClip == Max(OnlyPosition(calls, "CGContextClip@layer"),
                               OnlyPosition(calls, "CGContextEOClip@layer"))
                 atPaint == OnlyPosition(calls, "Gradient::paint@layer")
                 atDraw == OnlyPosition(calls, "CGContextDrawLayerInRect")
             IN  /\ 0 < atCreate /\ atCreate < atClip
                 /\ atClip < atPaint /\ atPaint < atDraw
                 /\ ~Called("Gradient::paint")
        ELSE LET atSave == OnlyPosition(calls, "CGContextSaveGState")
                 atPaint == OnlyPosition(calls, "Gradient::paint")
                 atPop == OnlyPosition(calls, "CGContextRestoreGState")
             IN  /\ \A i \in 1..Len(calls) : calls[i][2] \notin LayerFns
                 /\ 0 < atSave /\ atSave < atPaint /\ atPaint < atPop

\* strokeRect with a gradient stroke under a drop shadow, through a layer
C20_Witness ==
    /\ GradientStrokeStep
    /\ lastOp[1] = "strokeRect"
    /\ hasDropShadow(m_state)
    /\ RenderedThroughLayer

\* C21: a drawPath, fillPath or strokePath step with an empty path issues
\* no backend call and leaves the drawing state, its stack, the backend
\* state and the backend's stack as they were.
C21_EmptyPathIsNoOp ==
    [][ (lastOp'[1] \in {"drawPath", "fillPath", "strokePath"}
           /\ lastOp'[2] = "empty")
        => /\ calls' = << >>
           /\ m_state' = m_state
           /\ m_stack' = m_stack
           /\ cg' = cg
           /\ cgStack' = cgStack
      ]_vars

\* drawPath of the empty path with a pattern fill, a gradient stroke and a
\* drop shadow
C21_Witness ==
    /\ lastOp[1] = "drawPath"
    /\ lastOp[2] = "empty"
    /\ m_state.fillBrush.pattern
    /\ m_state.strokeBrush.gradient
    /\ hasDropShadow(m_state)
    /\ calls = << >>

\* The backend setters didUpdateState calls for a dirty field, and the
\* dirty fields it has a case for.
SettersOf(change) ==
    CASE change = "FillBrush" -> {"CGContextSetFillColorWithColor"}
      [] change = "StrokeBrush" -> {"CGContextSetStrokeColorWithColor"}
      [] change = "StrokeThickness" -> {"CGContextSetLineWidth"}
      [] change = "CompositeMode" -> {"CGContextSetBlendMode"}
      [] change = "DropShadow" -> {"CGContextSetStyle"}
      [] change = "Style" -> {"CGContextSetStyle"}
      [] change = "Alpha" -> {"CGContextSetAlpha"}
      [] change = "ImageInterpolationQuality" -> {"CGContextSetInterpolationQuality"}
      [] change = "TextDrawingMode" -> {"CGContextSetTextDrawingMode"}
      [] change = "ShouldAntialias" -> {"CGContextSetShouldAntialias"}
      [] change = "ShouldSmoothFonts" -> {"CGContextSetShouldSmoothFonts"}
      [] OTHER -> {}

\* Installing a shadow also sets the backend's alpha to the shadow's opacity.
AlsoCalledFor(change) ==
    IF change \in {"DropShadow", "Style"} THEN {"CGContextSetAlpha"} ELSE {}

CalledFns == {calls[i][2] : i \in 1..Len(calls)}

\* C22: a didUpdateState step on a state without dirty fields issues no
\* backend call and changes nothing; on a state with dirty fields it calls
\* the setter of every dirty field it has a case for, calls nothing that
\* belongs to no dirty field, and leaves the set of dirty fields empty (so
\* that a didUpdateState step right after it issues no call).
C22_DirtyFieldsConsumedOnce ==
    [][ lastOp'[1] = "didUpdateState" =>
          /\ m_state'.changes = {}
          /\ m_state.changes = {}
               => (calls' = << >> /\ cg' = cg /\ m_state' = m_state)
          /\ \A change \in m_state.changes :
                \A fn \in SettersOf(change) : Called(fn)'
          /\ \A fn \in CalledFns' :
                \E change \in m_state.changes :
                    fn \in SettersOf(change) \cup AlsoCalledFor(change)
          /\ m_state' = [m_state EXCEPT !.changes = {}]
      ]_vars

\* a didUpdateState that synchronised two dirty fields, one of them without
\* a case in the switch
C22_Witness ==
    /\ lastOp[1] = "didUpdateState"
    /\ Len(calls) = 1
    /\ m_state.fillRule = "EvenOdd"
    /\ m_state.strokeThickness = 2
    /\ cg.lineWidth = 2
    /\ m_state.changes = {}

\* C23: a clipToImageBuffer step leaves the backend's transform as it was.
\* With a native image it translates to the destination rect's bottom-left
\* corner, flips y, clips to the rect and to the mask, flips y and
\* translates back, and adds these two clips and nothing else to the
\* backend state; without one it issues no call and changes nothing.
C23_ClipToImageBufferKeepsTransform ==
    [][ lastOp'[1] = "clipToImageBuffer" =>
          LET destRect == lastOp'[3]
              bounds == <<0, 0, destRect[3], destRect[4]>>
          IN  /\ cg'.ctm = cg.ctm
              /\ m_state' = m_state
              /\ cgStack' = cgStack
              /\ IF lastOp'[2].nativeImage
                 THEN /\ [i \in 1..Len(calls') |-> <<calls'[i][2], calls'[i][3]>>]
                           = << <<"CGContextTranslateCTM",
                                  <<destRect[1], destRect[2] + destRect[4]>> >>,
                                <<"CGContextScaleCTM", <<1, -1>> >>,
                                <<"CGContextClipToRect", bounds>>,
                                <<"CGContextClipToMask", bounds>>,
                                <<"CGContextScaleCTM", <<1, -1>> >>,
                                <<"CGContextTranslateCTM",
                                  <<-destRect[1], -(destRect[2] + destRect[4])>> >> >>
                      /\ cg' = [cg EXCEPT !.clip =
                                   @ \o << <<"rect", bounds>>,
                                           <<"mask", bounds, "platformImage">> >>]
                 ELSE calls' = << >> /\ cg' = cg
      ]_vars

\* a mask applied for a destination rect off the origin under a rotated and
\* translated transform
C23_Witness ==
    /\ lastOp[1] = "clipToImageBuffer"
    /\ lastOp[2].nativeImage
    /\ lastOp[3] = <<1, 2, 3, 1>>
    /\ cg.ctm[2] # 0
    /\ cg.ctm[5] # 0
    /\ Len(cg.clip) = 2

\* The line of the last drawLine is vertical; its effective stroke length.
LineIsVertical == lastOp[2][1] + m_state.strokeThickness = lastOp[3][1]

EffectiveStrokeLength ==
    IF LineIsVertical THEN lastOp[3][2] - lastOp[2][2]
    ELSE lastOp[3][1] - lastOp[2][1]

\* C24: a drawLine step with stroke style NoStroke, with stroke thickness
\* zero, or with effective stroke length zero issues no backend call and
\* leaves the backend state, its stack and the drawing state as they were.
C24_DrawLineDegenerateIsNoOp ==
    [][ ( /\ lastOp'[1] = "drawLine"
          /\ \/ m_state'.strokeStyle = "NoStroke"
             \/ m_state'.strokeThickness = 0
             \/ EffectiveStrokeLength' = 0 )
        => /\ calls' = << >>
           /\ cg' = cg
           /\ cgStack' = cgStack
           /\ m_state' = m_state
      ]_vars

\* a vertical line of thickness 2 without y extent, dashed: nothing is
\* drawn
C24_Witness ==
    /\ lastOp[1] = "drawLine"
    /\ m_state.strokeStyle = "DashedStroke"
    /\ m_state.strokeThickness = 2
    /\ LineIsVertical
    /\ EffectiveStrokeLength = 0
    /\ calls = << >>

\* The gradient paint calls of the last operation that were handed the
\* context itself.
PaintHandOvers == {i \in 1..Len(calls) : calls[i][2] = "Gradient::paint"}

FlagImpliesIdentity ==
    m_userToDeviceTransformKnownToBeIdentity
        => CGContextGetUserSpaceToDeviceSpaceTransform(cg)
             = CGAffineTransformIdentity

\* The operations of C26: each pushes the backend state on some path.
PushingOperations ==
    {"drawNativeImage", "drawPattern", "drawLine", "fillPath", "strokePath",
     "fillRect", "fillRoundedRectImpl", "fillRectWithRoundedHole", "strokeRect"}

\* No prefix of a call log pops more backend states than it has pushed.
NeverPopsBelowEntry(log) ==
    \A n \in 1..Len(log) :
       CountCalls(SubSeq(log, 1, n), "CGContextRestoreGState")
           <= CountCalls(SubSeq(log, 1, n), "CGContextSaveGState")

\* C26: every drawing operation that pushes the backend state returns
\* with the backend save depth, and the saved states below, as they were
\* on entry: it pops as often as it pushed and never below its entry depth,
\* on the early returns too.
C26_DrawingKeepsSaveDepth ==
    [][lastOp'[1] \in PushingOperations
         => /\ Len(cgStack') = Len(cgStack)
            /\ cgStack' = cgStack
            /\ CountCalls(calls', "CGContextSaveGState")
                  = CountCalls(calls', "CGContextRestoreGState")
            /\ NeverPopsBelowEntry(calls')]_vars

\* a dashed line fully covered by its corners returned early, after it
\* had pushed the backend state
C26_Witness ==
    /\ lastOp[1] = "drawLine"
    /\ Called("CGContextSaveGState")
    /\ ~Called("CGContextStrokePath")

\* C27: strokeRect(rect, lineWidth), called with the stroke thickness of
\* the state equal to the line width of the backend, leaves the stroke
\* thickness of the state as it was and equal to the backend's line width.
C27_StrokeRectKeepsThickness ==
    [][(/\ lastOp'[1] = "strokeRect"
        /\ m_state.strokeThickness = cg.lineWidth)
         => /\ m_state'.strokeThickness = m_state.strokeThickness
            /\ m_state'.strokeThickness = cg'.lineWidth]_vars

\* A backend call that strokes the path, and one that fills it.
StrokesPath(call) ==
    \/ call[2] = "CGContextStrokeLineSegments"
    \/ /\ call[2] = "CGContextDrawPathDirect"
       /\ call[3] \in {"kCGPathStroke", "kCGPathFillStroke", "kCGPathEOFillStroke"}
    \/ /\ call[1] = "strokePath"
       /\ call[2] \in {"Gradient::paint", "CGContextDrawLayerInRect"}

FillsPath(call) ==
    \/ /\ call[2] = "CGContextDrawPathDirect"
       /\ call[3] \in {"kCGPathFill", "kCGPathEOFill", "kCGPathFillStroke",
                       "kCGPathEOFillStroke"}
    \/ /\ call[1] = "fillPath"
       /\ call[2] \in {"Gradient::paint", "CGContextDrawLayerInRect"}

StrokeIsActive(state) ==
    isVisible(state.strokeBrush) \/ state.strokeStyle # "NoStroke"

FillIsActive(state) == isVisible(state.fillBrush)

\* C28: drawPath issues no backend call that strokes the path when the
\* stroke is inactive (stroke brush not visible and stroke style NoStroke)
\* and none that fills it when the fill is inactive, whatever the brushes.
C28_DrawPathSkipsInactivePasses ==
    [][lastOp'[1] = "drawPath"
         => /\ ~StrokeIsActive(m_state)
                 => \A i \in 1..Len(calls') : ~StrokesPath(calls'[i])
            /\ ~FillIsActive(m_state)
                 => \A i \in 1..Len(calls') : ~FillsPath(calls'[i])]_vars

\* The step was made by one of the operations of C29.
FillsInOwnColor(op) ==
    \/ op[1] \in {"fillRoundedRectImpl", "drawRect", "drawLine", "drawLinesForText"}
    \/ op[1] = "fillRect" /\ op[2] = "color"

\* C29: called with the backend fill color equal to the fill color of the
\* state, each of these operations returns with the two equal again and
\* leaves the fill brush of the state alone.
C29_FillColorRestored ==
    [][(FillsInOwnColor(lastOp') /\ cg.fillColor = m_state.fillBrush.color)
         => /\ cg'.fillColor = m_state'.fillBrush.color
            /\ m_state'.fillBrush = m_state.fillBrush]_vars

\* C30: beginTransparencyLayer saves the state, then sets the alpha of the
\* layer, then opens the backend layer, and leaves the flag false;
\* endTransparencyLayer closes a backend layer that is open, then restores
\* the state.  After the end of a matched pair the stack depth, the number
\* of open backend layers, the drawing state and the backend state with
\* its alpha are the ones the begin found, and the flag is false.
C30_TransparencyLayersNest ==
    [][/\ lastOp'[1] = "beginTransparencyLayer"
          => /\ [i \in 1..Len(calls') |-> calls'[i][2]]
                  = <<"CGContextSaveGState", "CGContextSetAlpha",
                      "CGContextBeginTransparencyLayer">>
             /\ Len(m_stack') = Len(m_stack) + 1
             /\ cgLayers' = cgLayers + 1
             /\ Last(cgStack').alpha = cg.alpha
             /\ ~m_userToDeviceTransformKnownToBeIdentity'
       /\ lastOp'[1] = "endTransparencyLayer"
          => /\ [i \in 1..Len(calls') |-> calls'[i][2]]
                  = <<"CGContextEndTransparencyLayer", "CGContextRestoreGState">>
             /\ cgLayers >= 1
             /\ Len(m_stack') = Len(snapshots) - 1
             /\ cgLayers' = Last(snapshots)[4]
             /\ m_state' = Last(snapshots)[1]
             /\ cg' = Last(snapshots)[2]
             /\ cg'.alpha = Last(snapshots)[2].alpha
             /\ Len(cgStack') = Len(cgStack) - 1
             /\ ~m_userToDeviceTransformKnownToBeIdentity']_vars

\* a layer begun inside a save() inside another layer was ended: the
\* outer layer is still open, its save() is still on the stack and the
\* backend alpha is the alpha of the state again
C30_Witness ==
    /\ lastOp[1] = "endTransparencyLayer"
    /\ Len(m_stack) = 2
    /\ snapshots[1][3] = "TransparencyLayer"
    /\ snapshots[2][3] = "SaveRestore"
    /\ cgLayers = 1
    /\ cg.alpha = 1
    /\ m_state.alpha = 1

\* C25 as stated: whenever the flag is true the backend's
\* user-to-device transform is the identity, after every operation and
\* also while a gradient is painted into the context.
C25_Original ==
    /\ FlagImpliesIdentity
    /\ \A i \in PaintHandOvers :
          calls[i][3].known
              => calls[i][3].deviceMatrix = CGAffineTransformIdentity

\* C25: after every operation, a true flag comes with an identity
\* user-to-device transform.  While fillPath, fillRect, strokePath and
\* strokeRect paint a gradient into the context the flag is not touched:
\* when it is true the backend transform is then the gradient space
\* transform of the brush, identity or not, until the backend state is
\* popped.
C25_FlagSoundBetweenOperations ==
    /\ FlagImpliesIdentity
    /\ \A i \in PaintHandOvers :
          /\ calls[i][3].known = m_userToDeviceTransformKnownToBeIdentity
          /\ calls[i][3].known
               => calls[i][3].deviceMatrix
                    = (IF calls[i][1] \in {"fillPath", "fillRect"}
                       THEN m_state.fillBrush.gradientSpaceTransform
                       ELSE m_state.strokeBrush.gradientSpaceTransform)

\* the flag is true after a fillPath that painted a gradient under a
\* transform that was not the identity
C25_Witness ==
    /\ lastOp[1] = "fillPath"
    /\ m_userToDeviceTransformKnownToBeIdentity
    /\ cg.ctm = CGAffineTransformIdentity
    /\ \E i \in PaintHandOvers :
          /\ calls[i][3].known
          /\ calls[i][3].deviceMatrix # CGAffineTransformIdentity

====
